---- MODULE Spec2Model ----
(***************************************************************************)
(* A model of the in-memory RESP key/value server: the keyspace engine     *)
(* (strings with deadlines, streams, blocking stream reads, the expiry     *)
(* reaper), the per-connection writer actors, write propagation from the   *)
(* primary to its replicas and the WAIT rendezvous.                        *)
(*                                                                         *)
(* The subsystems are independent of one another in the code (they meet    *)
(* only in the store's mutex), so each property is stated for the         *)
(* specification of the subsystem it is about: SpecStream (XADD),          *)
(* SpecProp (propagation), SpecWait (WAIT), SpecXRead (blocking XREAD)     *)
(* and SpecExpiry (SET with a deadline and the reaper).  A specification   *)
(* leaves the variables of the other subsystems at their initial values.   *)
(***************************************************************************)
EXTENDS Integers, Sequences, FiniteSets, TLC

(***************************************************************************)
(* Bounds of the model                                                     *)
(***************************************************************************)
\* largest millisecond part of a stream id, and largest wall-clock reading
MaxMs == 2
\* largest sequence part of an explicit stream id
MaxSeq == 2
\* XADD is not issued on a stream that already holds this many entries
MaxEntries == 3
\* largest reading of the monotonic clock
MaxTime == 2
\* SET is not issued once the id counter has reached this value
MaxId == 3
\* longest time to live given to SET, in ms
MaxTtl == 1
\* longest BLOCK timeout given to XREAD, in ms
MaxBlock == 1
\* a connection carries at most this many requests
MaxCmds == 3
\* longest timeout given to WAIT, in ms
MaxWaitTimeout == 2
\* largest reading of the monotonic clock while WAIT is served
MaxWaitClock == 3

VARIABLES
    \* ------------------------------------------------ Store (db.rs:27-37)
    data,        \* Store.data: key -> entry
    expires,     \* Store.expires: set of rows [at, id, key]
    next_id,     \* Store.next_id
    is_dropped,  \* Store.is_dropped
    poisoned,    \* the store's mutex is poisoned (a holder panicked)
    replaced,    \* per key: what the last Db::set on it found and put there
    permit,      \* Shared.task_expiry_notify holds a permit
    reaper,      \* task_expiry: position, and the deadline it sleeps until
    reaped,      \* the keys the last pass of remove_expired removed
    rcv,         \* the broadcast receivers of the streams' update_sender
    \* ------------------------------------------------ clocks
    wall,        \* SystemTime::now() in ms (XADD Auto)
    now,         \* tokio::time::Instant::now() in ms
    \* ------------------------------------------------ last XADD served
    xres,        \* the request and the response of the last XADD
    \* ------------------------------------------------ a client in XREAD
    xr,          \* the handler serving XREAD: position, arguments, result
    \* ------------------------------------------------ replication (primary)
    replicas,    \* Master.replicas: the replicas in the order they were added
    repl_offset, \* Replica.replication_offset, per replica
    acks,        \* the mpsc channel tx_repl_got_ack -> rx_repl_got_ack
    hs,          \* the handler of each client connection (Handle)
    applied,     \* the SET frames in the order Db::set was entered
    wq,          \* per replica connection: the queue of its writer actor
    wire,        \* per replica connection: frames written, not yet read
    \* ------------------------------------------------ replication (replica)
    roffset,     \* per replica: Info.offset of its ingestion handler
    rlog,        \* per replica: the SET frames it has executed, in order
    up,          \* per replica: REPLCONF ACK offsets on their way up
    rsent,       \* per replica: the other responses it wrote to the primary
    rbytes,      \* per replica: the bytes of the frames read from the primary
    \* ------------------------------------------------ replica connections
    psynced,     \* the replica connections on which PSYNC has been served
    closed,      \* the replica connections whose socket has closed
    \* ------------------------------------------------ what clients saw
    got,         \* the last GET served: its key, what Db::get and Get::execute
                 \* returned, and a bit that every GET flips
    cq,          \* per client connection: the queue of its writer actor
    cout,        \* per client connection: the responses written to its socket
    \* ------------------------------------------------ functions applied
    call,        \* a function of the code applied to an input: its name, the
                 \* input and what it returned
    \* ------------------------------------------------ tasks of a connection
    tasks,       \* per replica connection: which of its reader actor, writer
                 \* actor and handler still run
    \* ------------------------------------------------ handles of the store
    handles      \* per Db handle: where its owner is in Drop::drop

dbVars == <<data, expires, next_id, is_dropped, poisoned, replaced, rcv>>
reaperVars == <<permit, reaper, reaped>>
connVars == <<rsent, rbytes, psynced, closed>>
obsVars == <<got, cq, cout, call, tasks, handles>>
replCore == <<replicas, repl_offset, acks, hs, applied, wq, wire, roffset,
              rlog, up, connVars>>
storeCore == <<dbVars, reaperVars, wall, now, xres, xr>>
replVars == <<replCore, obsVars>>
storeVars == <<storeCore, obsVars>>
vars == <<data, expires, next_id, is_dropped, poisoned, replaced, rcv, permit, reaper,
          reaped, wall, now, xres, xr, replicas, repl_offset, acks, hs,
          applied, wq, wire, roffset, rlog, up, rsent, rbytes, psynced,
          closed, got, cq, cout, call,
          tasks, handles>>

(***************************************************************************)
(* Entries (db.rs:39-92)                                                   *)
(***************************************************************************)
Keys == {"a", "b"}
\* the key the XADD and XREAD clients of the model work on
StreamKey == "a"
Values == {"v1", "v2"}

\* Option::None of StringEntry.expires_at
NoDeadline == 0 - 1

NoEntry == [kind |-> "none"]
StringEntry(id, value, expires_at) ==
    [kind |-> "string", id |-> id, value |-> value, expires_at |-> expires_at]
\* Stream { update_sender: None, entries: Vec::new() }
NewStream == [kind |-> "stream", entries |-> <<>>, update_sender |-> FALSE]

\* StreamEntryId(u128, usize) with the derived PartialOrd: lexicographic
Id(ms, seq) == <<ms, seq>>
IdLess(a, b) == a[1] < b[1] \/ (a[1] = b[1] /\ a[2] < b[2])
IdLeq(a, b) == a = b \/ IdLess(a, b)

\* Stream::get_last_id, and the same expression inlined in Db::xadd
GetLastId(stream) ==
    IF Len(stream.entries) = 0 THEN Id(0, 0)
    ELSE stream.entries[Len(stream.entries)]

\* entries.iter().filter(|entry| entry.id.0 == timestamp).count()
CountMs(entries, ms) ==
    Cardinality({i \in 1..Len(entries) : entries[i][1] = ms})

(***************************************************************************)
(* XADD                                                                    *)
(***************************************************************************)
\* the id argument as the client writes it
XAddArgs ==
    {[kind |-> "auto"]}
    \cup {[kind |-> "autoseq", ms |-> ms] : ms \in 0..MaxMs}
    \cup {[kind |-> "explicit", ms |-> ms, seq |-> seq] :
            ms \in 0..MaxMs, seq \in 0..MaxSeq}

\* XAdd::parse_id: "*", "<ms>-*", "<ms>-<seq>"; an explicit 0-0 is an error
ParseIdOk(arg) ==
    ~(arg.kind = "explicit" /\ arg.ms = 0 /\ arg.seq = 0)

\* the explicit id is refused (Db::xadd, XAddId::Explicit arm)
ExplicitRefused(ms, seq, last) ==
    \/ ms < last[1]
    \/ seq <= last[2]

\* the match on XAddId without the shift of the sequence number at ms 0
AssignIdUnshifted(stream, arg, timestamp) ==
    CASE arg.kind = "auto" ->
            [ok |-> TRUE, id |-> Id(timestamp, CountMs(stream.entries, timestamp))]
      [] arg.kind = "autoseq" ->
            [ok |-> TRUE, id |-> Id(arg.ms, CountMs(stream.entries, arg.ms))]
      [] arg.kind = "explicit" ->
            IF ExplicitRefused(arg.ms, arg.seq, GetLastId(stream))
            THEN [ok |-> FALSE, id |-> Id(0, 0)]
            ELSE [ok |-> TRUE, id |-> Id(arg.ms, arg.seq)]

\* Db::xadd, the match on XAddId: [ok, id]
AssignId(stream, arg, timestamp) ==
    CASE arg.kind = "auto" ->
            [ok |-> TRUE, id |-> Id(timestamp, CountMs(stream.entries, timestamp))]
      [] arg.kind = "autoseq" ->
            [ok |-> TRUE,
             id |-> Id(arg.ms, IF arg.ms = 0
                               THEN CountMs(stream.entries, arg.ms) + 1
                               ELSE CountMs(stream.entries, arg.ms))]
      [] arg.kind = "explicit" ->
            IF ExplicitRefused(arg.ms, arg.seq, GetLastId(stream))
            THEN [ok |-> FALSE, id |-> Id(0, 0)]
            ELSE [ok |-> TRUE, id |-> Id(arg.ms, arg.seq)]

\* store.data.entry(stream_key).or_insert_with(|| Entry::Stream(..))
EntryOrInsertStream(d, key) ==
    IF d[key].kind = "none" THEN [d EXCEPT ![key] = NewStream] ELSE d

(***************************************************************************)
(* The broadcast channel of a stream (tokio::sync::broadcast, capacity 1). *)
(* rcv[i] is the receiver owned by the waiter task of the i-th key of the  *)
(* XREAD in progress:                                                      *)
(*   state  "none" no receiver, "waiting" the waiter task runs,            *)
(*          "done" the task has ended (returned or panicked) and dropped   *)
(*          its receiver, "aborted" the JoinSet was dropped and the task   *)
(*          is not yet cancelled (its receiver still exists);              *)
(*   missed values sent since the receiver last read (2 stands for "two or *)
(*          more": the channel keeps one value, the receiver has lagged);  *)
(*   last   the value the channel holds; closed: the sender was dropped.   *)
(***************************************************************************)
NoReceiver ==
    [state |-> "none", key |-> "", floor |-> Id(0, 0), missed |-> 0,
     last |-> Id(0, 0), closed |-> FALSE]

\* receivers that still exist on the channel of the stream at `key`
ActiveReceivers(rc, key) ==
    {i \in DOMAIN rc : rc[i].key = key /\ ~rc[i].closed
                        /\ rc[i].state \in {"waiting", "aborted"}}

\* broadcast::Sender::send on a channel of capacity 1
BroadcastSend(rc, key, id) ==
    [i \in DOMAIN rc |->
        IF i \in ActiveReceivers(rc, key)
        THEN [rc[i] EXCEPT !.missed = IF @ = 0 THEN 1 ELSE 2, !.last = id]
        ELSE rc[i]]

\* dropping the Stream at `key` drops its Sender: the channel is closed
DropSender(rc, key) ==
    [i \in DOMAIN rc |->
        IF rc[i].key = key /\ rc[i].state # "none"
        THEN [rc[i] EXCEPT !.closed = TRUE] ELSE rc[i]]

\* Stream::send_update: sender.send(id).unwrap() panics without receivers
SendUpdatePanics(stream, rc, key) ==
    stream.update_sender /\ ActiveReceivers(rc, key) = {}

\* Db::xadd as a function of the store: the new store and the outcome
DbXAdd(d, rc, key, arg, timestamp) ==
    LET d1 == EntryOrInsertStream(d, key)
        stream == d1[key]
    IN  IF stream.kind # "stream"
        THEN [data |-> d1, rcv |-> rc, poisoned |-> FALSE,
              status |-> "wrongtype", id |-> Id(0, 0)]
        ELSE LET a == AssignId(stream, arg, timestamp)
                 pushed == [d1 EXCEPT ![key].entries = Append(@, a.id)]
             IN  IF ~a.ok
                 THEN [data |-> d1, rcv |-> rc, poisoned |-> FALSE,
                       status |-> "refused", id |-> Id(0, 0)]
                 ELSE IF SendUpdatePanics(stream, rc, key)
                 THEN [data |-> pushed, rcv |-> rc, poisoned |-> TRUE,
                       status |-> "panic", id |-> a.id]
                 ELSE [data |-> pushed,
                       rcv |-> IF stream.update_sender
                               THEN BroadcastSend(rc, key, a.id) ELSE rc,
                       poisoned |-> FALSE, status |-> "ok", id |-> a.id]

\* the last id of the stream at `key` as XADD sees it ((0,0) when absent)
LastIdAt(d, key) ==
    IF d[key].kind = "stream" THEN GetLastId(d[key]) ELSE Id(0, 0)

XRes(key, arg, last, status, id) ==
    [key |-> key, arg |-> arg, last |-> last, status |-> status, id |-> id]

\* a client's XADD served by its handler: XAdd::parse_frames, then
\* XAdd::execute -> Db::xadd (no await inside: one step under the mutex)
XAdd(key, arg) ==
    /\ data[key].kind = "stream" => Len(data[key].entries) < MaxEntries
    /\ IF ~ParseIdOk(arg)
       THEN /\ xres' = XRes(key, arg, LastIdAt(data, key), "parse_error", Id(0, 0))
            /\ UNCHANGED dbVars
       ELSE IF poisoned
       THEN \* store.lock().unwrap() panics: the handler task ends
            /\ xres' = XRes(key, arg, LastIdAt(data, key), "panic", Id(0, 0))
            /\ UNCHANGED dbVars
       ELSE LET r == DbXAdd(data, rcv, key, arg, wall)
            IN  /\ data' = r.data
                /\ rcv' = r.rcv
                /\ poisoned' = r.poisoned
                /\ xres' = XRes(key, arg, LastIdAt(data, key), r.status, r.id)
                /\ UNCHANGED <<expires, next_id, is_dropped, replaced>>
    /\ UNCHANGED <<reaperVars, wall, now, xr>>
    /\ UNCHANGED replVars

\* the wall clock advances
WallTick ==
    /\ wall < MaxMs
    /\ wall' = wall + 1
    /\ UNCHANGED <<dbVars, reaperVars, now, xres, xr>>
    /\ UNCHANGED replVars

(***************************************************************************)
(* SET, GET, remove                                                        *)
(***************************************************************************)
\* the time to live of a SET: none, or PX m (m = 0 is accepted)
Ttls == {NoDeadline} \cup 0..MaxTtl

Row(at, id, key) == [at |-> at, id |-> id, key |-> key]

\* the rows of the deadline index with the smallest key (expiry, id)
FirstRows(ex) ==
    {r \in ex : \A q \in ex : r.at < q.at \/ (r.at = q.at /\ r.id <= q.id)}

\* Store::next_expiry: has the index a row, and the expiry of its first row
HasNextExpiry(ex) == ex # {}
NextExpiry(ex) == (CHOOSE r \in FirstRows(ex) : TRUE).at

\* a remove that drops every row with the deadline, whatever its id
RemoveRowByDeadline(ex, at, id) == {r \in ex : r.at # at}
\* store.expires.remove(&(expiry, id))
RemoveRow(ex, at, id) == {r \in ex : ~(r.at = at /\ r.id = id)}

\* Db::set: `when < next` decides whether the reaper is notified
ShouldNotifyOnlyIfEarlier(ex, when) ==
    IF HasNextExpiry(ex) THEN when < NextExpiry(ex) ELSE FALSE
ShouldNotify(ex, when) ==
    IF HasNextExpiry(ex) THEN when < NextExpiry(ex) ELSE TRUE

\* what Db::set saw at a key: the deadline of the string entry it overwrote
\* (`prev`), and the deadline of the entry it put in its place
NoReplaced == [kind |-> "none"]
Replaced(at, own) == [kind |-> "string", at |-> at, own |-> own]

\* Db::set without lines 202-213: the previous row stays in the index
DbSetKeepsPrevRow(key, value, expire) ==
    LET id == next_id
        when == IF expire = NoDeadline THEN NoDeadline ELSE now + expire
        should_notify == expire # NoDeadline /\ ShouldNotify(expires, when)
        inserted == IF expire = NoDeadline THEN expires
                    ELSE expires \cup {Row(when, id, key)}
        prev == data[key]
    IN  /\ next_id' = next_id + 1
        /\ data' = [data EXCEPT ![key] = StringEntry(id, value, when)]
        /\ expires' = inserted
        /\ rcv' = IF prev.kind = "stream" THEN DropSender(rcv, key) ELSE rcv
        /\ permit' = (permit \/ should_notify)
        /\ replaced' = [replaced EXCEPT ![key] =
                            IF prev.kind = "string" /\ prev.expires_at # NoDeadline
                            THEN Replaced(prev.expires_at, when)
                            ELSE NoReplaced]
        /\ UNCHANGED <<is_dropped, poisoned>>

\* Db::set (one critical section, then notify_one)
DbSet(key, value, expire) ==
    LET id == next_id
        when == IF expire = NoDeadline THEN NoDeadline ELSE now + expire
        should_notify == expire # NoDeadline /\ ShouldNotify(expires, when)
        inserted == IF expire = NoDeadline THEN expires
                    ELSE expires \cup {Row(when, id, key)}
        prev == data[key]
    IN  /\ next_id' = next_id + 1
        /\ data' = [data EXCEPT ![key] = StringEntry(id, value, when)]
        /\ expires' = IF prev.kind = "string" /\ prev.expires_at # NoDeadline
                      THEN RemoveRow(inserted, prev.expires_at, prev.id)
                      ELSE inserted
        /\ rcv' = IF prev.kind = "stream" THEN DropSender(rcv, key) ELSE rcv
        /\ permit' = (permit \/ should_notify)
        /\ replaced' = [replaced EXCEPT ![key] =
                            IF prev.kind = "string" /\ prev.expires_at # NoDeadline
                            THEN Replaced(prev.expires_at, when)
                            ELSE NoReplaced]
        /\ UNCHANGED <<is_dropped, poisoned>>

\* a client's SET k v [PX m] served by its handler (Set::execute)
Set(key, value, expire) ==
    /\ next_id < MaxId
    /\ ~poisoned
    /\ DbSet(key, value, expire)
    /\ UNCHANGED <<reaper, reaped, wall, now, xres, xr>>
    /\ UNCHANGED replVars

\* Db::remove
Remove(key) ==
    /\ ~poisoned
    /\ data[key].kind # "none"
    /\ data' = [data EXCEPT ![key] = NoEntry]
    /\ expires' = IF data[key].kind = "string" /\ data[key].expires_at # NoDeadline
                  THEN RemoveRow(expires, data[key].expires_at, data[key].id)
                  ELSE expires
    /\ rcv' = IF data[key].kind = "stream" THEN DropSender(rcv, key) ELSE rcv
    /\ replaced' = [replaced EXCEPT ![key] = NoReplaced]
    /\ UNCHANGED <<next_id, is_dropped, poisoned, reaperVars, wall, now, xres, xr>>
    /\ UNCHANGED replVars

\* Get::execute on Db::get: the bulk of a string, Null otherwise
Null == "null"
Get(d, key) == IF d[key].kind = "string" THEN d[key].value ELSE Null

\* no GET has been served yet
NoGot == [key |-> "", entry |-> NoEntry, value |-> Null, turn |-> 0]

\* a GET that deletes the entry it finds overdue and answers Null
DbGetLazyExpire(key) ==
    /\ ~poisoned
    /\ LET overdue == /\ data[key].kind = "string"
                      /\ data[key].expires_at # NoDeadline
                      /\ data[key].expires_at <= now
       IN  /\ got' = [key |-> key,
                      entry |-> IF overdue THEN NoEntry ELSE data[key],
                      value |-> IF overdue THEN Null ELSE Get(data, key),
                      turn |-> 1 - got.turn]
           /\ data' = IF overdue THEN [data EXCEPT ![key] = NoEntry] ELSE data
           /\ expires' = IF overdue
                         THEN RemoveRow(expires, data[key].expires_at,
                                        data[key].id)
                         ELSE expires
    /\ UNCHANGED <<next_id, is_dropped, poisoned, replaced, rcv>>
    /\ UNCHANGED <<reaperVars, wall, now, xres, xr>>
    /\ UNCHANGED <<replCore, cq, cout, call, tasks, handles>>

\* a client's GET key: Db::get locks the store and clones the entry at the
\* key, Get::execute turns it into the response
DbGet(key) ==
    /\ ~poisoned
    /\ got' = [key |-> key,
               entry |-> data[key],
               value |-> Get(data, key),
               turn |-> 1 - got.turn]
    /\ UNCHANGED storeCore
    /\ UNCHANGED <<replCore, cq, cout, call, tasks, handles>>

(***************************************************************************)
(* The expiry reaper (task_expiry, Shared::remove_expired)                 *)
(***************************************************************************)
\* remove_expired: `if expiry > now { return Some(expiry) }`
InFutureOffByOne(expiry, t) == expiry > t + 1
InFuture(expiry, t) == expiry > t

\* the while loop of remove_expired run to its end on index `ex` and key
\* map `d` at time `t`: [data, expires, reaped]
RECURSIVE RemoveExpiredLoop(_, _, _, _)
RemoveExpiredLoop(d, ex, t, gone) ==
    IF ex = {} THEN [data |-> d, expires |-> ex, reaped |-> gone]
    ELSE LET r == CHOOSE q \in FirstRows(ex) : TRUE
         IN  IF InFuture(r.at, t)
             THEN [data |-> d, expires |-> ex, reaped |-> gone]
             ELSE LET hit == d[r.key].kind = "string" /\ d[r.key].id = r.id
                  IN  RemoveExpiredLoop(
                          IF hit THEN [d EXCEPT ![r.key] = NoEntry] ELSE d,
                          RemoveRow(ex, r.at, r.id), t,
                          IF hit THEN gone \cup {r.key} ELSE gone)

\* task_expiry: `while !shared.is_drop()`
ReaperCheck ==
    /\ reaper.pc = "loop"
    /\ ~poisoned
    /\ reaper' = [reaper EXCEPT !.pc = IF is_dropped THEN "done" ELSE "remove"]
    /\ UNCHANGED <<dbVars, permit, reaped, wall, now, xres, xr>>
    /\ UNCHANGED replVars

\* task_expiry: shared.remove_expired(), then the choice of what to await
ReaperRemoveExpired ==
    /\ reaper.pc = "remove"
    /\ ~poisoned
    /\ IF is_dropped
       THEN /\ reaper' = [reaper EXCEPT !.pc = "wait"]
            /\ UNCHANGED <<data, expires, reaped>>
       ELSE LET r == RemoveExpiredLoop(data, expires, now, {})
            IN  /\ data' = r.data
                /\ expires' = r.expires
                /\ reaped' = r.reaped
                /\ reaper' = IF HasNextExpiry(r.expires)
                             THEN [pc |-> "sleep", until |-> NextExpiry(r.expires)]
                             ELSE [reaper EXCEPT !.pc = "wait"]
    /\ UNCHANGED <<next_id, is_dropped, poisoned, replaced, rcv, permit, wall, now,
                   xres, xr>>
    /\ UNCHANGED replVars

\* select!: sleep_until(next_expiry) completes
ReaperSleepOver ==
    /\ reaper.pc = "sleep"
    /\ now >= reaper.until
    /\ reaper' = [reaper EXCEPT !.pc = "loop"]
    /\ UNCHANGED <<dbVars, permit, reaped, wall, now, xres, xr>>
    /\ UNCHANGED replVars

\* notified() completes, in the select! or alone: the permit is consumed
ReaperNotified ==
    /\ reaper.pc \in {"sleep", "wait"}
    /\ permit
    /\ permit' = FALSE
    /\ reaper' = [reaper EXCEPT !.pc = "loop"]
    /\ UNCHANGED <<dbVars, reaped, wall, now, xres, xr>>
    /\ UNCHANGED replVars

\* the monotonic clock advances (beyond MaxTime only up to the deadline of
\* the sleep an XREAD has armed, so that its timer is not left unserved)
Tick ==
    /\ \/ now < MaxTime
       \/ xr.sleep = "armed" /\ now < xr.until
    /\ now' = now + 1
    /\ UNCHANGED <<dbVars, reaperVars, wall, xres, xr>>
    /\ UNCHANGED replVars

(***************************************************************************)
(* The handles of the store (Db is a clone of Arc<Shared>; impl Drop)      *)
(*                                                                         *)
(* handles[h] is where the owner of handle h is:                           *)
(*   "held"     the handle is in use,                                      *)
(*   "flag"     in Drop::drop, strong_count was 2, about to take the lock, *)
(*   "notify"   is_dropped is set and the lock released,                   *)
(*   "release"  Drop::drop has returned, the Arc field is not yet dropped, *)
(*   "dropped"  the Arc of the handle is gone.                             *)
(***************************************************************************)
\* the Db handles of the model: those of two connection handlers
Handles == {"h1", "h2"}

\* Arc::strong_count(&self.shared): the handles whose Arc still exists and
\* the clone task_expiry owns while it runs
StrongCount ==
    Cardinality({h \in Handles : handles[h] # "dropped"})
    + (IF reaper.pc = "done" THEN 0 ELSE 1)

\* Drop::drop of handle h begins: `if Arc::strong_count(&self.shared) == 2`
DbDropEnter(h) ==
    /\ handles[h] = "held"
    /\ handles' = [handles EXCEPT ![h] =
                      IF StrongCount = 2 THEN "flag" ELSE "release"]
    /\ UNCHANGED <<storeCore, replCore, got, cq, cout, call, tasks>>

\* store.lock().unwrap(), `store.is_dropped = true`, drop(store); a
\* poisoned lock panics out of drop
DbDropFlag(h) ==
    /\ handles[h] = "flag"
    /\ handles' = [handles EXCEPT ![h] = IF poisoned THEN "release" ELSE "notify"]
    /\ is_dropped' = (is_dropped \/ ~poisoned)
    /\ UNCHANGED <<data, expires, next_id, poisoned, replaced, rcv, reaperVars,
                   wall, now, xres, xr>>
    /\ UNCHANGED <<replCore, got, cq, cout, call, tasks>>

\* task_expiry_notify.notify_one(), the last statement of Drop::drop
DbDropNotify(h) ==
    /\ handles[h] = "notify"
    /\ handles' = [handles EXCEPT ![h] = "release"]
    /\ permit' = TRUE
    /\ UNCHANGED <<dbVars, reaper, reaped, wall, now, xres, xr>>
    /\ UNCHANGED <<replCore, got, cq, cout, call, tasks>>

\* after Drop::drop the field `shared` is dropped: the count goes down
DbDropRelease(h) ==
    /\ handles[h] = "release"
    /\ handles' = [handles EXCEPT ![h] = "dropped"]
    /\ UNCHANGED <<storeCore, replCore, got, cq, cout, call, tasks>>

(***************************************************************************)
(* XREAD (XRead::execute, Db::xread, Db::get_streams_last_ids)             *)
(*                                                                         *)
(* xr is the handler of the connection that issues XREAD:                  *)
(*   pc      "idle"       between two commands,                            *)
(*           "xread"      the floors are resolved, Db::xread not entered,  *)
(*           "subscribe"  in the loop over stream_keys, at index idx,      *)
(*           "join"       awaiting join_set.join_next(),                   *)
(*           "collect"    about to take the lock and collect the entries,  *)
(*           "panicked"   the task has panicked;                           *)
(*   keys, ids, block     the arguments of Db::xread;                      *)
(*   sleep   the sleep task of the JoinSet: "none", "armed", "fired";      *)
(*   until   its deadline;                                                 *)
(*   seen    per key the number of entries its stream held when the XREAD  *)
(*           was issued; issued: the time of the issue;                    *)
(*   result  the value Db::xread returned, returned: when it did.          *)
(***************************************************************************)
\* Option::None of `block`
NoBlock == 0 - 1
Blocks == {NoBlock} \cup 0..MaxBlock

\* the lists of keys and the start ids an XREAD is issued with
XReadKeyLists == {<<StreamKey>>}
XReadFloors == {Id(0, 0), Id(MaxMs, 0)}

\* the waiter tasks of one XREAD: one per position in its list of keys
WaiterIds == 1..Len(CHOOSE l \in XReadKeyLists :
                      \A m \in XReadKeyLists : Len(m) <= Len(l))

\* the start ids as the client writes them: `$`, or one id per key
XReadStarts(keys) ==
    {[kind |-> "last", ids |-> <<>>]}
    \cup {[kind |-> "explicit", ids |-> [i \in 1..Len(keys) |-> f]] :
            f \in XReadFloors}

\* Db::get_streams_last_ids: filter_map over the keys that exist
RECURSIVE GetStreamsLastIds(_, _)
GetStreamsLastIds(d, keys) ==
    IF keys = <<>> THEN <<>>
    ELSE LET k == Head(keys)
             rest == GetStreamsLastIds(d, Tail(keys))
         IN  CASE d[k].kind = "none" -> rest
               [] d[k].kind = "stream" -> <<GetLastId(d[k])>> \o rest
               [] OTHER -> <<Id(0, 0)>> \o rest

\* XRead::execute, StartIds::Min arm: Db::get_streams_last_ids on the keys
\* of the request, under the store's lock
GetStreamsLastIdsCall(keys) ==
    /\ ~poisoned
    /\ call' = [fn |-> "get_streams_last_ids", in |-> keys,
                out |-> GetStreamsLastIds(data, keys)]
    /\ UNCHANGED <<storeCore, replCore, got, cq, cout, tasks, handles>>

\* stream_ids.get(idx).cloned().unwrap_or(StreamEntryId(0, 0))
FloorAt(ids, idx) == IF idx <= Len(ids) THEN ids[idx] ELSE Id(0, 0)

\* entries.iter().filter(|entry| entry.id > *id)
RECURSIVE EntriesAbove(_, _)
EntriesAbove(entries, floor) ==
    IF entries = <<>> THEN <<>>
    ELSE IF IdLess(floor, Head(entries))
         THEN <<Head(entries)>> \o EntriesAbove(Tail(entries), floor)
         ELSE EntriesAbove(Tail(entries), floor)

\* the final collection of Db::xread from index idx on: the keys that hold
\* a stream, each with its entries above its floor
RECURSIVE Collect(_, _, _, _)
Collect(d, keys, ids, idx) ==
    IF idx > Len(keys) THEN <<>>
    ELSE LET k == keys[idx]
             rest == Collect(d, keys, ids, idx + 1)
         IN  IF d[k].kind = "stream"
             THEN <<[key |-> k,
                     entries |-> EntriesAbove(d[k].entries, FloorAt(ids, idx))]>>
                  \o rest
             ELSE rest

\* the number of entries of the stream at k (0 when k holds no stream)
StreamLen(d, k) == IF d[k].kind = "stream" THEN Len(d[k].entries) ELSE 0

XrIdle ==
    [pc |-> "idle", keys |-> <<>>, ids |-> <<>>, block |-> NoBlock, idx |-> 0,
     sleep |-> "none", until |-> 0, seen |-> <<>>, issued |-> 0,
     result |-> <<>>, returned |-> 0]

\* XRead::execute up to the call of Db::xread: the floors are the ids given
\* or, for `$`, the last ids of the streams (one critical section)
XReadIssue(keys, start, block) ==
    /\ xr.pc = "idle"
    /\ now <= MaxTime
    /\ \A i \in DOMAIN rcv : rcv[i].state = "none"
    /\ xr' = IF start.kind = "last" /\ poisoned
             THEN [XrIdle EXCEPT !.pc = "panicked"]
             ELSE [XrIdle EXCEPT
                     !.pc = "xread",
                     !.keys = keys,
                     !.ids = IF start.kind = "last"
                             THEN GetStreamsLastIds(data, keys) ELSE start.ids,
                     !.block = block,
                     !.seen = [i \in 1..Len(keys) |-> StreamLen(data, keys[i])],
                     !.issued = now]
    /\ UNCHANGED <<dbVars, reaperVars, wall, now, xres>>
    /\ UNCHANGED replVars

\* Db::xread: `if let Some(block_timeout) = block`
XReadEnter ==
    /\ xr.pc = "xread"
    /\ xr' = IF xr.block = NoBlock THEN [xr EXCEPT !.pc = "collect"]
             ELSE [xr EXCEPT !.pc = "subscribe", !.idx = 1]
    /\ UNCHANGED <<dbVars, reaperVars, wall, now, xres>>
    /\ UNCHANGED replVars

\* one turn of the loop over stream_keys: lock, entry().or_insert_with(),
\* subscribe, spawn the waiter task
XReadSubscribe ==
    /\ xr.pc = "subscribe"
    /\ xr.idx <= Len(xr.keys)
    /\ IF poisoned
       THEN /\ xr' = [xr EXCEPT !.pc = "panicked"]
            /\ UNCHANGED <<data, rcv>>
       ELSE LET k == xr.keys[xr.idx]
                d1 == EntryOrInsertStream(data, k)
            IN  /\ xr' = [xr EXCEPT !.idx = @ + 1]
                /\ IF d1[k].kind = "stream"
                   THEN /\ data' = [d1 EXCEPT ![k].update_sender = TRUE]
                        /\ rcv' = [rcv EXCEPT ![xr.idx] =
                                     [state |-> "waiting", key |-> k,
                                      floor |-> FloorAt(xr.ids, xr.idx),
                                      missed |-> 0, last |-> Id(0, 0),
                                      closed |-> FALSE]]
                   ELSE /\ data' = d1
                        /\ rcv' = rcv
    /\ UNCHANGED <<expires, next_id, is_dropped, poisoned, replaced, reaperVars,
                   wall, now, xres>>
    /\ UNCHANGED replVars

\* after the loop: spawn the sleep when block_timeout > 0, then await
\* join_next(), which panics ("JoinSet is empty") when nothing was spawned
XReadArm ==
    /\ xr.pc = "subscribe"
    /\ xr.idx > Len(xr.keys)
    /\ xr' = IF xr.block > 0
             THEN [xr EXCEPT !.pc = "join", !.sleep = "armed",
                             !.until = now + xr.block]
             ELSE IF \E i \in DOMAIN rcv : rcv[i].state # "none"
                  THEN [xr EXCEPT !.pc = "join"]
                  ELSE [xr EXCEPT !.pc = "panicked"]
    /\ UNCHANGED <<dbVars, reaperVars, wall, now, xres>>
    /\ UNCHANGED replVars

\* receiver.recv().await returns a value to a waiter: it ends if the value
\* is above its floor and goes on waiting otherwise
WaiterRecvValue(i) ==
    /\ rcv[i].state = "waiting"
    /\ rcv[i].missed = 1
    /\ rcv' = [rcv EXCEPT ![i] =
                 IF IdLeq(rcv[i].last, rcv[i].floor)
                 THEN [@ EXCEPT !.missed = 0]
                 ELSE [@ EXCEPT !.missed = 0, !.state = "done"]]
    /\ UNCHANGED <<data, expires, next_id, is_dropped, poisoned, replaced, reaperVars,
                   wall, now, xres, xr>>
    /\ UNCHANGED replVars

\* receiver.recv().await returns Err (Lagged, or Closed once the channel
\* is empty): unwrap() panics and the waiter task ends
WaiterRecvError(i) ==
    /\ rcv[i].state = "waiting"
    /\ rcv[i].missed = 2 \/ (rcv[i].missed = 0 /\ rcv[i].closed)
    /\ rcv' = [rcv EXCEPT ![i] = [@ EXCEPT !.state = "done"]]
    /\ UNCHANGED <<data, expires, next_id, is_dropped, poisoned, replaced, reaperVars,
                   wall, now, xres, xr>>
    /\ UNCHANGED replVars

\* tokio::time::sleep(block_timeout) completes
XReadSleepOver ==
    /\ xr.pc = "join"
    /\ xr.sleep = "armed"
    /\ now >= xr.until
    /\ xr' = [xr EXCEPT !.sleep = "fired"]
    /\ UNCHANGED <<dbVars, reaperVars, wall, now, xres>>
    /\ UNCHANGED replVars

\* join_next() returns as one task of the JoinSet has ended; the JoinSet is
\* dropped, which aborts the tasks still running
XReadJoin ==
    /\ xr.pc = "join"
    /\ xr.sleep = "fired" \/ \E i \in DOMAIN rcv : rcv[i].state = "done"
    /\ xr' = [xr EXCEPT !.pc = "collect", !.sleep = "none"]
    /\ rcv' = [i \in DOMAIN rcv |->
                 CASE rcv[i].state = "done" -> NoReceiver
                   [] rcv[i].state = "waiting" -> [rcv[i] EXCEPT !.state = "aborted"]
                   [] OTHER -> rcv[i]]
    /\ UNCHANGED <<data, expires, next_id, is_dropped, poisoned, replaced, reaperVars,
                   wall, now, xres>>
    /\ UNCHANGED replVars

\* an aborted waiter task is cancelled: its receiver is dropped
WaiterCancelled(i) ==
    /\ rcv[i].state = "aborted"
    /\ rcv' = [rcv EXCEPT ![i] = NoReceiver]
    /\ UNCHANGED <<data, expires, next_id, is_dropped, poisoned, replaced, reaperVars,
                   wall, now, xres, xr>>
    /\ UNCHANGED replVars

\* Db::xread: the final critical section, and the handler's response
XReadCollect ==
    /\ xr.pc = "collect"
    /\ xr' = IF poisoned THEN [xr EXCEPT !.pc = "panicked"]
             ELSE [xr EXCEPT !.pc = "idle",
                             !.result = Collect(data, xr.keys, xr.ids, 1),
                             !.returned = now]
    /\ UNCHANGED <<dbVars, reaperVars, wall, now, xres>>
    /\ UNCHANGED replVars

(***************************************************************************)
(* Replication on the primary: Handle::run, Master::propagate,             *)
(* Master::count_sync_repl, the writer actor of a replica's connection     *)
(*                                                                         *)
(* hs[c] is the handler task of client connection c:                       *)
(*   pc      "read"       awaiting connection.read_frame(),                *)
(*           "executed"   Command::execute has returned,                   *)
(*           "propagate"  in the loop of Master::propagate, at snap[idx],  *)
(*           "written"    awaiting the writer's reply to write_frame,      *)
(*           "counting"   count_sync_repl is past its early return,        *)
(*           "getack"     the JoinSet of Master::propagate(GETACK) runs,   *)
(*           "recv"       blocked in rx.recv_timeout,                      *)
(*           "respond"    about to write the response;                     *)
(*   frame   the request being served; offset: Info.offset of the handler; *)
(*   snap    the replicas cloned under the lock; unwritten: frames this    *)
(*           handler has queued that no writer has written yet; tosend:    *)
(*           the GETACK tasks that have not queued their frame yet;        *)
(*   synced, target, deadline: the locals of count_sync_repl and the       *)
(*           instant its pending recv_timeout gives up;                    *)
(*   started, returned: when the recv loop began and when WAIT returned;   *)
(*   sent    the number of requests served on the connection.              *)
(***************************************************************************)
Clients == {"c1", "c2"}
Replicas == {"r1", "r2"}

\* command.to_frame().encode().bytes().len() of a SET and of a
\* REPLCONF GETACK *, in units of the model
SetLen == 2
GetAckLen == 3

\* mpsc::channel(10) of the writer actor
WriterQueueCap == 10

NoFrame == [cmd |-> "none"]
SetFrame(key, value) == [cmd |-> "SET", key |-> key, value |-> value]
WaitFrame(n, timeout) == [cmd |-> "WAIT", n |-> n, timeout |-> timeout]
GetAckFrame == [cmd |-> "GETACK"]
\* Frame::Rdb: +FULLRESYNC <replid> 0 followed by the RDB blob
FullResyncFrame == [cmd |-> "FULLRESYNC"]

\* a frame that is not a valid command, by what Command::from_frame
\* rejects in it; `word` is the command name it begins with, if any
\*   "nonarray"  not an array (Parse::new fails)
\*   "empty"     an empty array (next_string: EndOfStream)
\*   "nonstring" the first element is no string (next_string fails)
\*   "unknown"   no such command
\*   "arity"     an argument is missing or left over
\*   "badarg"    an argument does not parse
InvalidFrame(shape, word) == [cmd |-> "INVALID", shape |-> shape, word |-> word]
InvalidFrames ==
    {InvalidFrame(shape, "") : shape \in {"nonarray", "empty", "nonstring"}}
    \cup {InvalidFrame("unknown", "FOO")}
    \cup {InvalidFrame(shape, word) :
            shape \in {"arity", "badarg"}, word \in {"SET", "GET"}}

\* the encoded length of an invalid frame, in units of the model
InvalidLen == 1

FrameLen(frame) ==
    IF frame.cmd = "SET" THEN SetLen
    ELSE IF frame.cmd = "INVALID" THEN InvalidLen
    ELSE GetAckLen

\* Command::is_propagatable: Parse::new(frame)? and next_string()? fail
IsPropagatableErr(frame) ==
    frame.cmd = "INVALID" /\ frame.shape \in {"nonarray", "empty", "nonstring"}

\* a SET typed with the command name `word`
SetFrameAs(word, key, value) ==
    IF word = "SET" THEN SetFrame(key, value)
    ELSE [cmd |-> "SET", key |-> key, value |-> value, word |-> word]

\* a valid command other than SET and WAIT, typed with the name `word`
OtherFrame(word) == [cmd |-> "OTHER", word |-> word]
OtherWords ==
    {"PING", "ping", "ECHO", "GET", "get", "XADD", "xadd", "REPLCONF", "PSYNC"}

\* the first string of the array, as the client typed it
FirstWord(frame) ==
    IF "word" \in DOMAIN frame THEN frame.word
    ELSE IF frame.cmd = "GETACK" THEN "REPLCONF"
    ELSE frame.cmd

\* str::to_uppercase on the command names of the model
ToUppercase(word) ==
    CASE word \in {"set", "Set", "sET"} -> "SET"
      [] word = "ping" -> "PING"
      [] word = "get" -> "GET"
      [] word = "xadd" -> "XADD"
      [] OTHER -> word

\* is_propagatable comparing the name as it was typed
IsPropagatableCaseSensitive(frame) == FirstWord(frame) = "SET"

\* Command::is_propagatable: the first string of the array, in upper
\* case, is SET
IsPropagatable(frame) == ToUppercase(FirstWord(frame)) = "SET"

\* Info::incr_offset
IncrOffset(offset, n) == offset + n

\* the handler of a primary advances its offset by the encoded length of a
\* propagatable request before it propagates it
OffsetAfter(offset, frame) ==
    IF IsPropagatable(frame) THEN IncrOffset(offset, FrameLen(frame)) ELSE offset

NoResp == "none"

HsIdle(offset, sent) ==
    [pc |-> "read", frame |-> NoFrame, offset |-> offset, snap |-> <<>>,
     idx |-> 0, unwritten |-> 0, tosend |-> {}, synced |-> 0, target |-> 0,
     deadline |-> 0, started |-> 0, returned |-> 0, resp |-> NoResp,
     sent |-> sent]

Min(a, b) == IF a <= b THEN a ELSE b

\* ReplConf::execute, ListeningPort arm -> Info::add_slave ->
\* Master::add_replica: the connection of replica r joins the list
AddReplica(r) ==
    /\ \A i \in 1..Len(replicas) : replicas[i] # r
    /\ replicas' = Append(replicas, r)
    /\ UNCHANGED <<repl_offset, acks, hs, applied, wq, wire, roffset, rlog, up>>
    /\ UNCHANGED storeVars
    /\ UNCHANGED connVars

\* Handle::run of replica r's connection on a PSYNC, which the replica
\* sends after its REPLCONFs: Psync::execute returns Frame::Rdb, and
\* write_response queues it for the connection's writer (the +OK answers
\* to PING and REPLCONF are left out)
ServePsync(r) ==
    /\ \E i \in 1..Len(replicas) : replicas[i] = r
    /\ r \notin psynced
    /\ Len(wq[r]) < WriterQueueCap
    /\ wq' = [wq EXCEPT ![r] = Append(@, [frame |-> FullResyncFrame, from |-> r])]
    /\ psynced' = psynced \cup {r}
    /\ UNCHANGED <<replicas, repl_offset, acks, hs, applied, wire, roffset, rlog,
                   up, rsent, rbytes, closed>>
    /\ UNCHANGED storeVars

\* Handle::run on a SET: read_frame, then Command::execute -> Set::execute
\* -> Db::set (one critical section of the store)
HandleSetAs(c, word, key, value) ==
    /\ hs[c].pc = "read"
    /\ hs[c].sent < MaxCmds
    /\ next_id < MaxId
    /\ ~poisoned
    /\ DbSet(key, value, NoDeadline)
    /\ applied' = Append(applied, SetFrameAs(word, key, value))
    /\ hs' = [hs EXCEPT ![c] =
                [@ EXCEPT !.pc = "executed",
                          !.frame = SetFrameAs(word, key, value),
                          !.offset = OffsetAfter(@, SetFrameAs(word, key, value)),
                          !.resp = "OK",
                          !.sent = @ + 1]]
    /\ UNCHANGED <<replicas, repl_offset, acks, wq, wire, roffset, rlog, up>>
    /\ UNCHANGED <<reaper, reaped, wall, now, xres, xr, obsVars>>
    /\ UNCHANGED connVars

\* the same, the command name typed in upper case
HandleSet(c, key, value) == HandleSetAs(c, "SET", key, value)

\* Handle::run on a valid command other than SET and WAIT: Command::execute
\* gives its response; what it does to the store is not looked at here
HandleOther(c, word) ==
    /\ hs[c].pc = "read"
    /\ hs[c].sent < MaxCmds
    /\ hs' = [hs EXCEPT ![c] =
                [@ EXCEPT !.pc = "executed",
                          !.frame = OtherFrame(word),
                          !.offset = OffsetAfter(@, OtherFrame(word)),
                          !.resp = "RESP",
                          !.sent = @ + 1]]
    /\ UNCHANGED <<replicas, repl_offset, acks, applied, wq, wire, roffset,
                   rlog, up>>
    /\ UNCHANGED storeVars
    /\ UNCHANGED connVars

\* Handle::run on a frame that Command::from_frame rejects:
\* Command::execute returns Frame::Error and the length 0
HandleInvalid(c, frame) ==
    /\ hs[c].pc = "read"
    /\ hs[c].sent < MaxCmds
    /\ hs' = [hs EXCEPT ![c] =
                [@ EXCEPT !.pc = "executed",
                          !.frame = frame,
                          !.resp = "ERR",
                          !.sent = @ + 1]]
    /\ UNCHANGED <<replicas, repl_offset, acks, applied, wq, wire, roffset,
                   rlog, up>>
    /\ UNCHANGED storeVars
    /\ UNCHANGED connVars

\* Handle::propagate: `is_propagatable(frame.clone()).unwrap()` (an Err
\* panics the handler task), then Master::propagate clones the replicas
\* under the lock of the list
PropagateClone(c) ==
    /\ hs[c].pc = "executed"
    /\ hs' = [hs EXCEPT ![c] =
                IF IsPropagatableErr(@.frame)
                THEN [@ EXCEPT !.pc = "panicked"]
                ELSE IF IsPropagatable(@.frame)
                THEN [@ EXCEPT !.pc = "propagate", !.snap = replicas, !.idx = 1]
                ELSE [@ EXCEPT !.pc = "respond"]]
    /\ UNCHANGED <<replicas, repl_offset, acks, applied, wq, wire, roffset,
                   rlog, up>>
    /\ UNCHANGED storeVars
    /\ UNCHANGED connVars

\* Master::propagate, one turn of `for replica in replicas.iter_mut()`:
\* Connection::write_frame queues the frame for the replica's writer; after
\* the last turn the handler goes on to write its response
PropagateWrite(c) ==
    /\ hs[c].pc = "propagate"
    /\ IF hs[c].idx > Len(hs[c].snap)
       THEN /\ hs' = [hs EXCEPT ![c].pc = "respond"]
            /\ wq' = wq
       ELSE LET r == hs[c].snap[hs[c].idx]
            IN  /\ Len(wq[r]) < WriterQueueCap
                /\ wq' = [wq EXCEPT ![r] =
                            Append(@, [frame |-> hs[c].frame, from |-> c])]
                /\ hs' = [hs EXCEPT ![c].pc = "written", ![c].unwritten = 1]
    /\ UNCHANGED <<replicas, repl_offset, acks, applied, wire, roffset, rlog, up>>
    /\ UNCHANGED storeVars
    /\ UNCHANGED connVars

\* the writer actor of replica r's connection (ConnectionWriter::run): it
\* takes the next message of its queue, writes the frame to the socket and
\* answers the oneshot of the task that queued it
WriterRun(r) ==
    /\ wq[r] # <<>>
    /\ LET m == Head(wq[r])
       IN  /\ wire' = [wire EXCEPT ![r] = Append(@, m.frame)]
           /\ hs' = IF m.from \in Clients
                    THEN [hs EXCEPT ![m.from].unwritten = @ - 1] ELSE hs
    /\ wq' = [wq EXCEPT ![r] = Tail(@)]
    /\ UNCHANGED <<replicas, repl_offset, acks, applied, roffset, rlog, up>>
    /\ UNCHANGED storeVars
    /\ UNCHANGED connVars

\* write_value, Frame::Rdb arm: what write_simple_string and flush put on
\* the socket, and what write_rdb puts there after the sleep
FullResyncLine == [cmd |-> "FULLRESYNC", part |-> "line"]
RdbPayload == [cmd |-> "RDB"]

\* the writer actor of r's connection is inside write_value of a Frame::Rdb,
\* in `sleep(500 ms)`: the line is on the socket, the payload is not
WriterInRdb(r) ==
    /\ wire[r] # <<>>
    /\ wire[r][Len(wire[r])] = FullResyncLine

\* the writer actor on a message whose frame is not Frame::Rdb: write_frame
\* writes and flushes it, the oneshot is answered, and the actor returns to
\* `receiver.recv()`
WriterRunFrame(r) ==
    /\ ~WriterInRdb(r)
    /\ wq[r] # <<>>
    /\ Head(wq[r]).frame # FullResyncFrame
    /\ WriterRun(r)

\* a writer that hands the payload of a Frame::Rdb back to its queue as a
\* message of its own
WriterRdbLineRequeued(r) ==
    /\ ~WriterInRdb(r)
    /\ wq[r] # <<>>
    /\ Head(wq[r]).frame = FullResyncFrame
    /\ wire' = [wire EXCEPT ![r] = Append(@, FullResyncLine)]
    /\ wq' = [wq EXCEPT ![r] =
                Append(Tail(@), [frame |-> RdbPayload, from |-> r])]
    /\ UNCHANGED <<replicas, repl_offset, acks, hs, applied, roffset, rlog, up>>
    /\ UNCHANGED storeVars
    /\ UNCHANGED connVars

\* the writer actor takes a message whose frame is Frame::Rdb: write_value
\* writes the +FULLRESYNC line, flushes and sleeps
WriterRdbLine(r) ==
    /\ ~WriterInRdb(r)
    /\ wq[r] # <<>>
    /\ Head(wq[r]).frame = FullResyncFrame
    /\ wire' = [wire EXCEPT ![r] = Append(@, FullResyncLine)]
    /\ wq' = [wq EXCEPT ![r] = Tail(@)]
    /\ UNCHANGED <<replicas, repl_offset, acks, hs, applied, roffset, rlog, up>>
    /\ UNCHANGED storeVars
    /\ UNCHANGED connVars

\* the sleep is over: write_rdb writes the payload, write_frame flushes,
\* the oneshot is answered and the actor returns to `receiver.recv()`
WriterRdbPayload(r) ==
    /\ WriterInRdb(r)
    /\ wire' = [wire EXCEPT ![r] = Append(@, RdbPayload)]
    /\ UNCHANGED <<replicas, repl_offset, acks, hs, applied, wq, roffset, rlog,
                   up>>
    /\ UNCHANGED storeVars
    /\ UNCHANGED connVars

\* the socket of replica r's connection closes: read_frame returns None on
\* the primary and Handle::run of that connection returns; the Replica in
\* Master.replicas keeps its clone of the Connection
CloseReplica(r) ==
    /\ \E i \in 1..Len(replicas) : replicas[i] = r
    /\ r \notin closed
    /\ closed' = closed \cup {r}
    /\ UNCHANGED <<replicas, repl_offset, acks, hs, applied, wq, wire, roffset,
                   rlog, up, rsent, rbytes, psynced>>
    /\ UNCHANGED storeVars

\* Connection::new spawns the two actors; the server spawns the handler
AllRunning == [reader |-> "run", writer |-> "run", handler |-> "run"]
AllEnded == [reader |-> "ended", writer |-> "ended", handler |-> "ended"]

\* the peer of connection r closes its socket, before or after the
\* connection was registered as a replica
ClosePeer(r) ==
    /\ r \notin closed
    /\ closed' = closed \cup {r}
    /\ UNCHANGED <<replicas, repl_offset, acks, hs, applied, wq, wire, roffset,
                   rlog, up, rsent, rbytes, psynced>>
    /\ UNCHANGED storeVars

\* Handle::run of connection r: read_frame returns None at the end of the
\* stream, the loop ends and the Handle with its Connection is dropped
HandlerEnds(r) ==
    /\ r \in closed
    /\ tasks[r].handler = "run"
    /\ tasks' = [tasks EXCEPT ![r].handler = "ended"]
    /\ UNCHANGED <<storeCore, replCore, got, cq, cout, call, handles>>

\* a clone of the Connection of r exists: the one of its running handler,
\* or the one in the Replica that Master::add_replica pushed
SendersAlive(r) ==
    \/ tasks[r].handler = "run"
    \/ \E i \in 1..Len(replicas) : replicas[i] = r

\* ConnectionReaderActor::run: `receiver.recv()` returns None once every
\* read_sender is dropped, and the task ends
ReaderEnds(r) ==
    /\ tasks[r].reader = "run"
    /\ ~SendersAlive(r)
    /\ tasks' = [tasks EXCEPT ![r].reader = "ended"]
    /\ UNCHANGED <<storeCore, replCore, got, cq, cout, call, handles>>

\* ConnectionWriterActor::run: `receiver.recv()` returns None once the
\* queue is empty and every write_sender is dropped, and the task ends
WriterEnds(r) ==
    /\ tasks[r].writer = "run"
    /\ ~SendersAlive(r)
    /\ wq[r] = <<>>
    /\ tasks' = [tasks EXCEPT ![r].writer = "ended"]
    /\ UNCHANGED <<storeCore, replCore, got, cq, cout, call, handles>>

\* the writer actor of a closed connection: its write to the socket may
\* fail; the error is sent back on the oneshot. In Master::propagate of
\* server.rs the handler awaits it in write_frame; in the JoinSet of
\* info.rs the task that awaits it unwraps it, panics and is joined.
WriterFail(r) ==
    /\ r \in closed
    /\ wq[r] # <<>>
    /\ LET m == Head(wq[r])
       IN  hs' = IF m.from \notin Clients THEN hs
                 ELSE IF hs[m.from].pc = "written"
                 THEN [hs EXCEPT ![m.from].pc = "failed",
                                 ![m.from].unwritten = @ - 1]
                 ELSE [hs EXCEPT ![m.from].unwritten = @ - 1]
    /\ wq' = [wq EXCEPT ![r] = Tail(@)]
    /\ UNCHANGED <<replicas, repl_offset, acks, applied, wire, roffset, rlog, up>>
    /\ UNCHANGED storeVars
    /\ UNCHANGED connVars

\* Master::propagate: `write_frame(frame.clone()).await.unwrap()` on an Err:
\* the handler task panics; its connection is served no more
PropagatePanics(c) ==
    /\ hs[c].pc = "failed"
    /\ hs' = [hs EXCEPT ![c].pc = "panicked"]
    /\ UNCHANGED <<replicas, repl_offset, acks, applied, wq, wire, roffset,
                   rlog, up>>
    /\ UNCHANGED storeVars
    /\ UNCHANGED connVars

\* write_frame returning as soon as the frame is queued, without the
\* writer's reply
PropagateWrittenUnawaited(c) ==
    /\ hs[c].pc = "written"
    /\ hs' = [hs EXCEPT ![c].pc = "propagate", ![c].idx = @ + 1]
    /\ UNCHANGED <<replicas, repl_offset, acks, applied, wq, wire, roffset,
                   rlog, up>>
    /\ UNCHANGED storeVars
    /\ UNCHANGED connVars

\* Connection::write_frame returns in Master::propagate (`rx.await?`): on to
\* the next replica
PropagateWritten(c) ==
    /\ hs[c].pc = "written"
    /\ hs[c].unwritten = 0
    /\ hs' = [hs EXCEPT ![c].pc = "propagate", ![c].idx = @ + 1]
    /\ UNCHANGED <<replicas, repl_offset, acks, applied, wq, wire, roffset,
                   rlog, up>>
    /\ UNCHANGED storeVars
    /\ UNCHANGED connVars

\* the response to the n-th command read on a connection
Response(resp, n) == [resp |-> resp, n |-> n]

\* Handle::write_response, in the steps of Connection::write_frame: the
\* response is sent to the queue of the connection's writer actor
WriteResponseSend(c) ==
    /\ hs[c].pc = "respond"
    /\ Len(cq[c]) < WriterQueueCap
    /\ cq' = [cq EXCEPT ![c] = Append(@, Response(hs[c].resp, hs[c].sent))]
    /\ hs' = [hs EXCEPT ![c].pc = "responding", ![c].unwritten = 1]
    /\ UNCHANGED <<replicas, repl_offset, acks, applied, wq, wire, roffset,
                   rlog, up>>
    /\ UNCHANGED storeCore
    /\ UNCHANGED <<connVars, got, cout, call, tasks, handles>>

\* the writer actor of client c's connection (ConnectionWriterActor::run):
\* it takes the next message of its queue, writes the frame to the socket
\* and answers the oneshot of the handler
ClientWriterRun(c) ==
    /\ cq[c] # <<>>
    /\ cout' = [cout EXCEPT ![c] = Append(@, Head(cq[c]))]
    /\ cq' = [cq EXCEPT ![c] = Tail(@)]
    /\ hs' = [hs EXCEPT ![c].unwritten = 0]
    /\ UNCHANGED <<replicas, repl_offset, acks, applied, wq, wire, roffset,
                   rlog, up>>
    /\ UNCHANGED storeCore
    /\ UNCHANGED <<connVars, got, call, tasks, handles>>

\* write_frame returning as soon as the response is queued, without the
\* writer's reply
WriteResponseUnawaited(c) ==
    /\ hs[c].pc = "responding"
    /\ hs' = [hs EXCEPT ![c] = HsIdle(@.offset, @.sent)]
    /\ UNCHANGED <<replicas, repl_offset, acks, applied, wq, wire, roffset,
                   rlog, up>>
    /\ UNCHANGED storeVars
    /\ UNCHANGED connVars

\* Connection::write_frame returns in Handle::write_response (`rx.await?`);
\* the handler returns to read_frame
WriteResponseWritten(c) ==
    /\ hs[c].pc = "responding"
    /\ hs[c].unwritten = 0
    /\ hs' = [hs EXCEPT ![c] = HsIdle(@.offset, @.sent)]
    /\ UNCHANGED <<replicas, repl_offset, acks, applied, wq, wire, roffset,
                   rlog, up>>
    /\ UNCHANGED storeVars
    /\ UNCHANGED connVars

\* Handle::write_response in one step, for the specifications that do not
\* look at the client's socket; the handler returns to read_frame
WriteResponse(c) ==
    /\ hs[c].pc = "respond"
    /\ hs' = [hs EXCEPT ![c] = HsIdle(@.offset, @.sent)]
    /\ UNCHANGED <<replicas, repl_offset, acks, applied, wq, wire, roffset,
                   rlog, up>>
    /\ UNCHANGED storeVars
    /\ UNCHANGED connVars

(***************************************************************************)
(* WAIT (Command::execute, Master::count_sync_repl)                        *)
(***************************************************************************)
\* the arguments a client gives to WAIT
WaitCounts == 1..Cardinality(Replicas)
WaitTimeouts == {0, MaxWaitTimeout}

\* count_sync_repl: `if master_offset == 0 { return replicas_count; }`
NothingWrittenNever(master_offset) == master_offset < 0
NothingWritten(master_offset) == master_offset = 0

\* Handle::run on a WAIT: Command::execute -> count_sync_repl up to its
\* early return
HandleWait(c, n, timeout) ==
    /\ hs[c].pc = "read"
    /\ hs[c].sent < MaxCmds
    /\ LET replicas_count == Len(replicas)
       IN  hs' = [hs EXCEPT ![c] =
                    IF NothingWritten(@.offset)
                    THEN [@ EXCEPT !.pc = "respond",
                                   !.frame = WaitFrame(n, timeout),
                                   !.resp = replicas_count,
                                   !.started = now,
                                   !.returned = now,
                                   !.sent = @ + 1]
                    ELSE [@ EXCEPT !.pc = "counting",
                                   !.frame = WaitFrame(n, timeout),
                                   !.target = Min(n, replicas_count),
                                   !.synced = 0,
                                   !.sent = @ + 1]]
    /\ UNCHANGED <<replicas, repl_offset, acks, applied, wq, wire, roffset,
                   rlog, up>>
    /\ UNCHANGED storeVars
    /\ UNCHANGED connVars

\* count_sync_repl -> Master::propagate(GETACK) of info.rs: the connections
\* are cloned under the lock and one task per connection is spawned
GetAckClone(c) ==
    /\ hs[c].pc = "counting"
    /\ hs' = [hs EXCEPT ![c].pc = "getack",
                        ![c].tosend = {replicas[i] : i \in 1..Len(replicas)}]
    /\ UNCHANGED <<replicas, repl_offset, acks, applied, wq, wire, roffset,
                   rlog, up>>
    /\ UNCHANGED storeVars
    /\ UNCHANGED connVars

\* one task of the JoinSet queues the GETACK for its replica's writer
GetAckWrite(c, r) ==
    /\ hs[c].pc = "getack"
    /\ r \in hs[c].tosend
    /\ Len(wq[r]) < WriterQueueCap
    /\ wq' = [wq EXCEPT ![r] = Append(@, [frame |-> GetAckFrame, from |-> c])]
    /\ hs' = [hs EXCEPT ![c].tosend = @ \ {r}, ![c].unwritten = @ + 1]
    /\ UNCHANGED <<replicas, repl_offset, acks, applied, wire, roffset, rlog, up>>
    /\ UNCHANGED storeVars
    /\ UNCHANGED connVars

\* `while tasks.join_next().await.is_some() {}` ends; rx is locked (the
\* guard is held until count_sync_repl returns, so another WAIT that has
\* reached `rx_repl_got_ack.lock()` stays there) and the first
\* recv_timeout(timeout) begins
GetAckJoined(c) ==
    /\ hs[c].pc = "getack"
    /\ hs[c].tosend = {}
    /\ hs[c].unwritten = 0
    /\ \A o \in Clients \ {c} : hs[o].pc # "recv"
    /\ hs' = [hs EXCEPT ![c].pc = "recv",
                        ![c].started = now,
                        ![c].deadline = now + hs[c].frame.timeout]
    /\ UNCHANGED <<replicas, repl_offset, acks, applied, wq, wire, roffset,
                   rlog, up>>
    /\ UNCHANGED storeVars
    /\ UNCHANGED connVars

\* rx.recv_timeout(timeout) returns Ok: the ack is counted when its offset
\* reaches master_offset; the loop either breaks (the channel is drained
\* and the count returned) or calls recv_timeout(timeout) again
RecvAck(c) ==
    /\ hs[c].pc = "recv"
    /\ acks # <<>>
    /\ LET ack == Head(acks)
           synced == IF ack.offset >= hs[c].offset
                     THEN hs[c].synced + 1 ELSE hs[c].synced
       IN  IF synced >= hs[c].target
           THEN /\ acks' = <<>>
                /\ hs' = [hs EXCEPT ![c].pc = "respond",
                                    ![c].synced = synced,
                                    ![c].resp = synced,
                                    ![c].returned = now]
           ELSE /\ acks' = Tail(acks)
                /\ hs' = [hs EXCEPT ![c].synced = synced,
                                    ![c].deadline = now + hs[c].frame.timeout]
    /\ UNCHANGED <<replicas, repl_offset, applied, wq, wire, roffset, rlog, up>>
    /\ UNCHANGED storeVars
    /\ UNCHANGED connVars

\* rx.recv_timeout(timeout) returns Err: the loop breaks, the (empty)
\* channel is drained and the count returned
RecvTimeout(c) ==
    /\ hs[c].pc = "recv"
    /\ acks = <<>>
    /\ now >= hs[c].deadline
    /\ hs' = [hs EXCEPT ![c].pc = "respond",
                        ![c].resp = hs[c].synced,
                        ![c].returned = now]
    /\ UNCHANGED <<replicas, repl_offset, acks, applied, wq, wire, roffset,
                   rlog, up>>
    /\ UNCHANGED storeVars
    /\ UNCHANGED connVars

\* Frame::NoSend
NoSend == [cmd |-> "NOSEND"]

\* ConnectionWriterActor::write_value on the socket of a connection: the
\* frame is written, and `Frame::NoSend => {}` writes nothing
WriteValue(socket, frame) ==
    IF frame = NoSend THEN socket ELSE Append(socket, frame)

\* an answer to REPLCONF ACK, as the line commented out in the Ack arm
ReplConfAckPing == [cmd |-> "PING"]

\* the frame ReplConf::execute returns in its Ack arm
ReplConfAckResponse == NoSend

\* ReplConf::execute, Ack arm, in the primary's handler of replica r's
\* connection: the pair goes onto the channel, the replica's offset is
\* recorded, nothing is answered
ReplConfAck(r) ==
    /\ up[r] # <<>>
    /\ acks' = Append(acks, [addr |-> r, offset |-> Head(up[r])])
    /\ repl_offset' = [repl_offset EXCEPT ![r] = Head(up[r])]
    /\ up' = [up EXCEPT ![r] = Tail(@)]
    /\ wire' = [wire EXCEPT ![r] = WriteValue(@, ReplConfAckResponse)]
    /\ UNCHANGED <<replicas, hs, applied, wq, roffset, rlog>>
    /\ UNCHANGED storeVars
    /\ UNCHANGED connVars

(***************************************************************************)
(* The replica: its ingestion of the frames the primary writes             *)
(***************************************************************************)
\* the ingestion loop of a replica adds the encoded length of every frame
\* it receives from the primary to its offset
\* Command::from_frame_writes: the write-only dispatch knows the frame
FromFrameWritesOk(frame) == frame.cmd \in {"SET", "GETACK"}

\* the length Command::execute_replica returns with the response: that of
\* the command it parsed, and 0 for a frame from_frame_writes rejects
ExecuteReplicaLen(frame) ==
    IF FromFrameWritesOk(frame) THEN FrameLen(frame) ELSE 0

\* the response Command::execute_replica returns: Set::execute_replica
\* gives Frame::Null, a rejected frame gives Frame::Error
ExecuteReplicaResponse(frame) ==
    IF FromFrameWritesOk(frame) THEN "NULL" ELSE "ERR"

\* the ingestion offset grows by the length execute_replica returned
ReplicaOffsetAfter(offset, frame) ==
    IncrOffset(offset, ExecuteReplicaLen(frame))

\* the ingestion handler of replica r reads the next frame of the primary,
\* executes it (Command::execute_replica: a SET is applied, a GETACK is
\* answered with REPLCONF ACK <offset>), adds the returned length to its
\* offset and writes the response to the primary (Handle::write_response;
\* the writer sends every frame but Frame::NoSend)
ReplicaIngest(r) ==
    /\ wire[r] # <<>>
    /\ LET frame == Head(wire[r])
       IN  /\ rlog' = IF frame.cmd = "SET"
                      THEN [rlog EXCEPT ![r] = Append(@, frame)] ELSE rlog
           /\ up' = IF frame.cmd = "GETACK"
                    THEN [up EXCEPT ![r] = Append(@, roffset[r])] ELSE up
           /\ roffset' = [roffset EXCEPT ![r] = ReplicaOffsetAfter(@, frame)]
           /\ rbytes' = [rbytes EXCEPT ![r] = @ + FrameLen(frame)]
           /\ rsent' = IF frame.cmd = "GETACK" THEN rsent
                        ELSE [rsent EXCEPT
                                ![r] = Append(@, ExecuteReplicaResponse(frame))]
    /\ wire' = [wire EXCEPT ![r] = Tail(@)]
    /\ UNCHANGED <<replicas, repl_offset, acks, hs, applied, wq>>
    /\ UNCHANGED storeVars
    /\ UNCHANGED <<psynced, closed>>

\* time passes while WAIT is served: a thread blocked in recv_timeout wakes
\* as soon as an ack is in the channel or its deadline is reached
WaitTick ==
    /\ now < MaxWaitClock
    /\ \A c \in Clients :
          hs[c].pc = "recv" => (acks = <<>> /\ now < hs[c].deadline)
    /\ now' = now + 1
    /\ UNCHANGED <<dbVars, reaperVars, wall, xres, xr>>
    /\ UNCHANGED replVars

(***************************************************************************)
(* The frame codec (frame.rs, ConnectionWriterActor::write_frame)          *)
(*                                                                         *)
(* Bytes are sequences of one-character strings; CR and LF stand for the   *)
(* bytes \r and \n.                                                        *)
(***************************************************************************)
CR == "CR"
LF == "LF"
CRLF == <<CR, LF>>

Simple(s) == [t |-> "Simple", s |-> s]
Error(e) == [t |-> "Error", e |-> e]
Integer(n) == [t |-> "Integer", n |-> n]
Bulk(b) == [t |-> "Bulk", b |-> b]
Array(a) == [t |-> "Array", a |-> a]
\* Frame::Null
NullFrame == [t |-> "Null"]

Digits == <<"0", "1", "2", "3", "4", "5", "6", "7", "8", "9">>

\* format!("{}", n) of an unsigned integer
RECURSIVE Decimal(_)
Decimal(n) ==
    IF n < 10 THEN <<Digits[n + 1]>>
    ELSE Decimal(n \div 10) \o <<Digits[(n % 10) + 1]>>

IsDigit(ch) == \E d \in 1..10 : Digits[d] = ch
DigitValue(ch) == (CHOOSE d \in 1..10 : Digits[d] = ch) - 1

RECURSIVE DigitsValue(_, _)
DigitsValue(line, acc) ==
    IF line = <<>> THEN acc
    ELSE DigitsValue(Tail(line), 10 * acc + DigitValue(Head(line)))

\* str::parse::<u64>: digits, after an optional plus sign
ParseU64(line) ==
    LET digits == IF line # <<>> /\ Head(line) = "+" THEN Tail(line) ELSE line
    IN  IF digits # <<>> /\ \A i \in 1..Len(digits) : IsDigit(digits[i])
        THEN [ok |-> TRUE, n |-> DigitsValue(digits, 0)]
        ELSE [ok |-> FALSE]

Incomplete == [ok |-> FALSE, err |-> "Incomplete"]
ProtocolError == [ok |-> FALSE, err |-> "Protocol error"]
Parsed(frame, rest) == [ok |-> TRUE, frame |-> frame, rest |-> rest]

\* get_line: the bytes before the first \r\n, and the bytes after it
get_line(src) ==
    LET ends == {i \in 1..(Len(src) - 1) : src[i] = CR /\ src[i + 1] = LF}
    IN  IF ends = {} THEN Incomplete
        ELSE LET i == CHOOSE e \in ends : \A o \in ends : e <= o
             IN  [ok |-> TRUE, line |-> SubSeq(src, 1, i - 1),
                  rest |-> SubSeq(src, i + 2, Len(src))]

\* get_decimal
get_decimal(src) ==
    LET l == get_line(src)
    IN  IF ~l.ok THEN Incomplete
        ELSE IF ~ParseU64(l.line).ok THEN ProtocolError
        ELSE [ok |-> TRUE, n |-> ParseU64(l.line).n, rest |-> l.rest]

\* Frame::parse on the bytes src: the frame and the bytes left, or an error
RECURSIVE FrameParse(_)
RECURSIVE FrameParseArray(_, _, _)
FrameParse(src) ==
    IF src = <<>> THEN Incomplete
    ELSE LET rest == Tail(src)
         IN  CASE Head(src) = "+" ->
                    LET l == get_line(rest)
                    IN  IF l.ok THEN Parsed(Simple(l.line), l.rest)
                        ELSE Incomplete
               [] Head(src) = "-" ->
                    LET l == get_line(rest)
                    IN  IF l.ok THEN Parsed(Error(l.line), l.rest)
                        ELSE Incomplete
               [] Head(src) = ":" ->
                    LET d == get_decimal(rest)
                    IN  IF d.ok THEN Parsed(Integer(d.n), d.rest) ELSE d
               [] Head(src) = "$" ->
                    IF rest = <<>> THEN Incomplete
                    ELSE IF Head(rest) = "-"
                    THEN LET l == get_line(rest)
                         IN  IF ~l.ok THEN Incomplete
                             \* `if line != b"-1\r\n"` on the line that
                             \* get_line returns without its \r\n
                             ELSE IF l.line # <<"-", "1">> \o CRLF
                             THEN ProtocolError
                             ELSE Parsed(NullFrame, l.rest)
                    ELSE LET d == get_decimal(rest)
                         IN  IF ~d.ok THEN d
                             ELSE IF Len(d.rest) < d.n + 2 THEN Incomplete
                             ELSE Parsed(Bulk(SubSeq(d.rest, 1, d.n)),
                                         SubSeq(d.rest, d.n + 3, Len(d.rest)))
               [] Head(src) = "*" ->
                    LET d == get_decimal(rest)
                    IN  IF d.ok THEN FrameParseArray(d.rest, d.n, <<>>) ELSE d
               [] OTHER -> ProtocolError

\* the loop of the Array arm: `vec.push(Frame::parse(src)?)`, len times
FrameParseArray(src, len, vec) ==
    IF len = 0 THEN Parsed(Array(vec), src)
    ELSE LET p == FrameParse(src)
         IN  IF p.ok THEN FrameParseArray(p.rest, len - 1, Append(vec, p.frame))
             ELSE p

RECURSIVE Concat(_)
Concat(seqs) == IF seqs = <<>> THEN <<>> ELSE Head(seqs) \o Concat(Tail(seqs))

\* Frame::encode, whose length is the byte count of a command
RECURSIVE FrameEncode(_)
FrameEncode(frame) ==
    CASE frame.t = "Simple" -> <<"+">> \o frame.s \o CRLF
      [] frame.t = "Error" -> <<"-">> \o frame.e \o CRLF
      [] frame.t = "Integer" -> <<":">> \o Decimal(frame.n) \o CRLF
      [] frame.t = "Bulk" ->
            <<"$">> \o Decimal(Len(frame.b)) \o CRLF \o frame.b \o CRLF
      [] frame.t = "Array" ->
            <<"*">> \o Decimal(Len(frame.a)) \o CRLF
            \o Concat([i \in 1..Len(frame.a) |-> FrameEncode(frame.a[i])])
      \* encode_null
      [] frame.t = "Null" -> <<"_">> \o CRLF

\* ConnectionWriterActor::write_frame and write_value: the bytes written
\* to the socket
RECURSIVE write_value(_)
write_value(frame) ==
    CASE frame.t = "Simple" -> <<"+">> \o frame.s \o CRLF
      [] frame.t = "Error" -> <<"-">> \o frame.e \o CRLF
      [] frame.t = "Integer" -> <<":">> \o Decimal(frame.n) \o CRLF
      [] frame.t = "Bulk" ->
            <<"$">> \o Decimal(Len(frame.b)) \o CRLF \o frame.b \o CRLF
      [] frame.t = "Array" ->
            <<"*">> \o Decimal(Len(frame.a)) \o CRLF
            \o Concat([i \in 1..Len(frame.a) |-> write_value(frame.a[i])])
      [] frame.t = "Null" -> <<"$", "-", "1">> \o CRLF

\* largest Integer frame, and the contents of the string frames
MaxInt == 10
Texts == {<<>>, <<"a">>, <<"a", "b">>}

LeafFrames ==
    {Simple(s) : s \in Texts} \cup {Error(e) : e \in Texts}
    \cup {Bulk(b) : b \in Texts} \cup {Integer(n) : n \in 0..MaxInt}
    \cup {NullFrame}
FlatArrays ==
    {Array(<<>>)} \cup {Array(<<f>>) : f \in LeafFrames}
    \cup {Array(<<f, g>>) : f \in LeafFrames, g \in {Bulk(<<"a">>), NullFrame}}
NestedArrays ==
    {Array(<<a>>) : a \in FlatArrays}
    \cup {Array(<<Bulk(<<"a">>), a>>) : a \in FlatArrays}
\* the frames the codec is applied to
CodecFrames == LeafFrames \cup FlatArrays \cup NestedArrays

\* Frame::encode, and Frame::parse on what it returned
CodecEncode ==
    /\ call.fn = "frame"
    /\ call' = [fn |-> "encode", in |-> call.in,
                bytes |-> FrameEncode(call.in),
                out |-> FrameParse(FrameEncode(call.in))]
    /\ UNCHANGED <<storeCore, replCore, got, cq, cout, tasks, handles>>

\* the writer actor writes the frame, and Frame::parse reads the bytes
CodecWrite ==
    /\ call.fn = "frame"
    /\ call' = [fn |-> "write", in |-> call.in,
                bytes |-> write_value(call.in),
                out |-> FrameParse(write_value(call.in))]
    /\ UNCHANGED <<storeCore, replCore, got, cq, cout, tasks, handles>>

(***************************************************************************)
(* The byte length Command::execute returns (src/src/command/mod.rs)       *)
(*                                                                         *)
(* A request is the command a client typed: its name as typed and its      *)
(* arguments. ReceivedFrame is the array of bulk strings the reader parsed *)
(* from the socket; ToFrame is the frame the parsed command rebuilds.      *)
(***************************************************************************)
\* the bytes of the words of a request
Word(w) ==
    CASE w = "SET" -> <<"S", "E", "T">>
      [] w = "set" -> <<"s", "e", "t">>
      [] w = "EX" -> <<"E", "X">>
      [] w = "PX" -> <<"P", "X">>
      [] w = "PING" -> <<"P", "I", "N", "G">>
      [] w = "ECHO" -> <<"E", "C", "H", "O">>
      [] w = "GET" -> <<"G", "E", "T">>
      [] w = "TYPE" -> <<"T", "Y", "P", "E">>
      [] w = "INFO" -> <<"I", "N", "F", "O">>
      [] w = "WAIT" -> <<"W", "A", "I", "T">>
      [] w = "CONFIG" -> <<"C", "O", "N", "F", "I", "G">>
      [] w = "Config" -> <<"C", "o", "n", "f", "i", "g">>
      [] w = "dir" -> <<"d", "i", "r">>

SetRequest(word, key, value, opt, n) ==
    [cmd |-> "SET", word |-> word, key |-> key, value |-> value,
     opt |-> opt, n |-> n]

\* the array of bulk strings as it was received
ReceivedFrame(req) ==
    CASE req.cmd = "SET" ->
            Array(<<Bulk(Word(req.word)), Bulk(req.key), Bulk(req.value)>>
                  \o IF req.opt = "none" THEN <<>>
                     ELSE <<Bulk(Word(req.opt)), Bulk(Decimal(req.n))>>)
      [] req.cmd = "PING" -> Array(<<Bulk(Word("PING"))>>)
      [] req.cmd = "INFO" -> Array(<<Bulk(Word("INFO"))>>)
      [] req.cmd \in {"ECHO", "GET", "TYPE"} ->
            Array(<<Bulk(Word(req.cmd)), Bulk(req.key)>>)
      [] req.cmd = "CONFIG" ->
            Array(<<Bulk(Word("CONFIG")), Bulk(Word("GET")),
                    Bulk(Word("dir"))>>)
      [] req.cmd = "WAIT" ->
            Array(<<Bulk(Word("WAIT")), Bulk(Decimal(req.count)),
                    Bulk(Decimal(req.timeout))>>)

\* Set::parse_frames: Duration::from_secs for EX, from_millis for PX, and
\* Duration::as_secs of the result
AsSecs(opt, n) == IF opt = "EX" THEN n ELSE n \div 1000

\* Command::from_frame followed by CommandTrait::to_frame of the command
ToFrame(req) ==
    CASE req.cmd = "SET" ->
            Array(<<Bulk(Word("SET")), Bulk(req.key), Bulk(req.value)>>
                  \o IF req.opt = "none" THEN <<>>
                     ELSE <<Bulk(Word("EX")),
                            Bulk(Decimal(AsSecs(req.opt, req.n)))>>)
      [] req.cmd = "PING" -> Array(<<Bulk(Word("PING"))>>)
      [] req.cmd \in {"ECHO", "GET"} ->
            Array(<<Bulk(Word(req.cmd)), Bulk(req.key)>>)
      \* Type::to_frame
      [] req.cmd = "TYPE" -> Array(<<Bulk(Word("PING"))>>)
      [] req.cmd = "INFO" -> Simple(Word("INFO"))
      [] req.cmd = "CONFIG" -> Simple(Word("Config"))
      [] req.cmd = "WAIT" -> NullFrame

\* the second component of what Command::execute returns
ExecuteBytes(req) == Len(FrameEncode(ToFrame(req)))

\* from_frame_writes knows SET, REPLCONF and PING
ExecuteReplicaBytes(req) ==
    IF req.cmd \in {"SET", "PING"} THEN Len(FrameEncode(ToFrame(req))) ELSE 0

\* the options of SET, the counts and timeouts of WAIT
SetExpiries == {0, 1, 100, 1000}
WaitArgs == {0, 1, 100}
Requests ==
    {SetRequest(w, k, v, "none", 0) :
        w \in {"SET", "set"}, k \in {<<"a">>, <<"a", "b">>}, v \in Texts}
    \cup {SetRequest(w, <<"a">>, v, o, n) :
            w \in {"SET", "set"}, v \in Texts, o \in {"EX", "PX"},
            n \in SetExpiries}
    \cup {[cmd |-> c, key |-> k] :
            c \in {"ECHO", "GET", "TYPE"}, k \in {<<"a">>, <<"a", "b">>}}
    \cup {[cmd |-> c] : c \in {"PING", "INFO", "CONFIG"}}
    \cup {[cmd |-> "WAIT", count |-> n, timeout |-> t] :
            n \in WaitArgs, t \in WaitArgs}

\* Command::execute on the frame of a request
ExecuteRequest ==
    /\ call.fn = "request"
    /\ call' = [fn |-> "execute", in |-> call.in,
                len |-> ExecuteBytes(call.in),
                received |-> Len(FrameEncode(ReceivedFrame(call.in)))]
    /\ UNCHANGED <<storeCore, replCore, got, cq, cout, tasks, handles>>

\* Command::execute_replica on a frame the primary propagated
ExecuteReplicaRequest ==
    /\ call.fn = "request"
    /\ call.in.cmd = "SET"
    /\ call' = [fn |-> "execute_replica", in |-> call.in,
                len |-> ExecuteReplicaBytes(call.in),
                received |-> Len(FrameEncode(ReceivedFrame(call.in)))]
    /\ UNCHANGED <<storeCore, replCore, got, cq, cout, tasks, handles>>

(***************************************************************************)
(* The state after construction (Shared::new, Db::new)                     *)
(***************************************************************************)
NoXRes == XRes("", [kind |-> "none"], Id(0, 0), "none", Id(0, 0))

\* no function is under check
NoCall == [fn |-> "none"]

InitServer ==
    /\ data = [k \in Keys |-> NoEntry]
    /\ expires = {}
    /\ next_id = 0
    /\ is_dropped = FALSE
    /\ poisoned = FALSE
    /\ replaced = [k \in Keys |-> NoReplaced]
    /\ rcv = [i \in WaiterIds |-> NoReceiver]
    /\ permit = FALSE
    /\ reaper = [pc |-> "loop", until |-> 0]
    /\ reaped = {}
    /\ wall = 0
    /\ now = 0
    /\ xres = NoXRes
    /\ xr = XrIdle
    /\ replicas = <<>>
    /\ repl_offset = [r \in Replicas |-> 0]
    /\ acks = <<>>
    /\ hs = [c \in Clients |-> HsIdle(0, 0)]
    /\ applied = <<>>
    /\ wq = [r \in Replicas |-> <<>>]
    /\ wire = [r \in Replicas |-> <<>>]
    /\ roffset = [r \in Replicas |-> 0]
    /\ rlog = [r \in Replicas |-> <<>>]
    /\ up = [r \in Replicas |-> <<>>]
    /\ rsent = [r \in Replicas |-> <<>>]
    /\ rbytes = [r \in Replicas |-> 0]
    /\ psynced = {}
    /\ closed = {}
    /\ got = NoGot
    /\ cq = [c \in Clients |-> <<>>]
    /\ cout = [c \in Clients |-> <<>>]
    /\ tasks = [r \in Replicas |-> AllRunning]
    /\ handles = [h \in Handles |-> "held"]

Init == InitServer /\ call = NoCall

(***************************************************************************)
(* SpecCodec: a frame of CodecFrames is encoded, or written by the writer  *)
(* actor, and the bytes are parsed                                         *)
(***************************************************************************)
InitCodec ==
    /\ InitServer
    /\ call \in {[fn |-> "frame", in |-> f] : f \in CodecFrames}

NextCodec ==
    \/ CodecEncode
    \/ CodecWrite

SpecCodec == InitCodec /\ [][NextCodec]_vars

(***************************************************************************)
(* SpecLen: a request of Requests is executed by the primary, or, when it  *)
(* is a SET, by a replica that received it                                 *)
(***************************************************************************)
InitLen ==
    /\ InitServer
    /\ call \in {[fn |-> "request", in |-> req] : req \in Requests}

NextLen ==
    \/ ExecuteRequest
    \/ ExecuteReplicaRequest

SpecLen == InitLen /\ [][NextLen]_vars

(***************************************************************************)
(* SpecLastIds: clients issue XADD with explicit ids and SET on both keys, *)
(* keys are removed, and the last ids of one or two keys are asked for     *)
(***************************************************************************)
LastIdsKeyLists == {<<"a">>, <<"a", "b">>, <<"b", "a">>}

NextLastIds ==
    \/ \E k \in Keys, ms \in 1..MaxMs :
          XAdd(k, [kind |-> "explicit", ms |-> ms, seq |-> 1])
    \/ \E k \in Keys : Set(k, "v1", NoDeadline)
    \/ \E k \in Keys : Remove(k)
    \/ \E keys \in LastIdsKeyLists : GetStreamsLastIdsCall(keys)

SpecLastIds == Init /\ [][NextLastIds]_vars

(***************************************************************************)
(* SpecStream: clients issue XADD on one stream key, and SET on it         *)
(***************************************************************************)
NextStream ==
    \/ \E arg \in XAddArgs : XAdd(StreamKey, arg)
    \/ \E v \in Values : Set(StreamKey, v, NoDeadline)
    \/ WallTick

SpecStream == Init /\ [][NextStream]_vars

(***************************************************************************)
(* SpecAuto: clients issue XADD with *, with <ms>-* and with the explicit  *)
(* ids of sequence number MaxSeq on one stream key, and remove the key     *)
(***************************************************************************)
NextAuto ==
    \/ \E arg \in {a \in XAddArgs : a.kind = "explicit" => a.seq = MaxSeq} :
          XAdd(StreamKey, arg)
    \/ Remove(StreamKey)
    \/ WallTick

SpecAuto == Init /\ [][NextAuto]_vars

(***************************************************************************)
(* SpecExpiry: clients issue SET with and without a deadline and remove    *)
(* keys, the reaper runs, time passes                                      *)
(***************************************************************************)
NextExpiry_ ==
    \/ \E k \in Keys, e \in Ttls : Set(k, "v1", e)
    \/ \E k \in Keys : Remove(k)
    \/ ReaperCheck
    \/ ReaperRemoveExpired
    \/ ReaperSleepOver
    \/ ReaperNotified
    \/ Tick

SpecExpiry == Init /\ [][NextExpiry_]_vars

(***************************************************************************)
(* SpecGet: clients issue GET and remove on the keys, SET with and without *)
(* PX on the keys other than StreamKey, and one XADD on StreamKey, while   *)
(* the reaper runs                                                         *)
(***************************************************************************)
NextGet ==
    \/ \E k \in Keys \ {StreamKey}, e \in {NoDeadline, MaxTtl} : Set(k, "v1", e)
    \/ \E k \in Keys : Remove(k)
    \/ \E k \in Keys : DbGet(k)
    \/ /\ xres = NoXRes
       /\ XAdd(StreamKey, [kind |-> "explicit", ms |-> 1, seq |-> 1])
    \/ ReaperCheck
    \/ ReaperRemoveExpired
    \/ ReaperSleepOver
    \/ ReaperNotified
    \/ Tick

SpecGet == Init /\ [][NextGet]_vars

\* the reaper task is scheduled whenever it can run, and time passes
ReaperStep ==
    \/ ReaperCheck
    \/ ReaperRemoveExpired
    \/ ReaperSleepOver
    \/ ReaperNotified

\* clients only issue SET k v PX m, on keys that hold nothing: no entry is
\* written again before the reaper removes it
NextReap ==
    \/ \E k \in Keys, m \in {0, MaxTtl} :
          /\ data[k] = NoEntry
          /\ Set(k, "v1", m)
    \/ ReaperStep
    \/ Tick

FairReap ==
    /\ Init /\ [][NextReap]_vars
    /\ WF_vars(ReaperStep)
    /\ WF_vars(Tick)

(***************************************************************************)
(* SpecDrop: the handlers that hold the two handles issue SET with and     *)
(* without a deadline and end, each dropping its handle, on threads of     *)
(* their own; the reaper runs and time passes                              *)
(***************************************************************************)
NextDrop ==
    \/ \E k \in Keys, e \in {NoDeadline, MaxTtl} :
          /\ \E h \in Handles : handles[h] = "held"
          /\ data[k] = NoEntry
          /\ Set(k, "v1", e)
    \/ \E h \in Handles : DbDropEnter(h)
    \/ \E h \in Handles : DbDropFlag(h)
    \/ \E h \in Handles : DbDropNotify(h)
    \/ \E h \in Handles : DbDropRelease(h)
    \/ ReaperStep
    \/ Tick

SpecDrop == Init /\ [][NextDrop]_vars

(***************************************************************************)
(* SpecXRead: one client issues XREAD, blocking or not, on the stream key  *)
(* while other clients issue XADD with explicit ids and SET on that key    *)
(***************************************************************************)
XReadAddArgs == {a \in XAddArgs : a.kind = "explicit" /\ a.ms = 1}

XReadProgramStep ==
    \/ XReadEnter
    \/ XReadSubscribe
    \/ XReadArm
    \/ \E i \in WaiterIds : WaiterRecvValue(i)
    \/ \E i \in WaiterIds : WaiterRecvError(i)
    \/ XReadSleepOver
    \/ XReadJoin
    \/ \E i \in WaiterIds : WaiterCancelled(i)
    \/ XReadCollect

NextXRead ==
    \/ \E arg \in XReadAddArgs : XAdd(StreamKey, arg)
    \/ Set(StreamKey, "v1", NoDeadline)
    \/ \E keys \in XReadKeyLists, block \in Blocks :
          \E start \in XReadStarts(keys) : XReadIssue(keys, start, block)
    \/ XReadProgramStep
    \/ Tick

SpecXRead == Init /\ [][NextXRead]_vars

\* the runtime schedules every task that can run, and time passes; the
\* clients are free to send nothing more
FairXRead ==
    /\ SpecXRead
    /\ WF_vars(XReadProgramStep)
    /\ WF_vars(Tick)

(***************************************************************************)
(* SpecIndex: every operation that takes the store's lock: SET with and    *)
(* without a deadline, removal, XADD and a non-blocking XREAD on the       *)
(* stream key, and the reaper. One XADD and one XREAD are served at any    *)
(* point between the other operations, the XREAD at the last instant.      *)
(***************************************************************************)
NextIndex ==
    \/ \E k \in Keys, e \in {NoDeadline, MaxTtl} : Set(k, "v1", e)
    \/ \E k \in Keys : Remove(k)
    \/ /\ xres = NoXRes
       /\ XAdd(StreamKey, [kind |-> "explicit", ms |-> 1, seq |-> 1])
    \/ /\ xr = XrIdle
       /\ now = MaxTime
       /\ XReadIssue(<<StreamKey>>, [kind |-> "explicit", ids |-> <<Id(0, 0)>>],
                     NoBlock)
    \/ XReadEnter
    \/ XReadCollect
    \/ ReaperStep
    \/ Tick

SpecIndex == Init /\ [][NextIndex]_vars

(***************************************************************************)
(* SpecProp: two clients issue pairwise distinct SETs on the primary while *)
(* replicas join; the writes are propagated and the replicas ingest them   *)
(***************************************************************************)
ClientValue(c) == IF c = "c1" THEN "v1" ELSE "v2"

InLog(log, frame) == \E i \in 1..Len(log) : log[i] = frame

NextProp ==
    \/ \E r \in Replicas : AddReplica(r)
    \/ \E c \in Clients, k \in Keys :
          /\ ~InLog(applied, SetFrame(k, ClientValue(c)))
          /\ HandleSet(c, k, ClientValue(c))
    \/ \E c \in Clients : PropagateClone(c)
    \/ \E c \in Clients : PropagateWrite(c)
    \/ \E r \in Replicas : WriterRun(r)
    \/ \E c \in Clients : PropagateWritten(c)
    \/ \E c \in Clients : WriteResponse(c)
    \/ \E r \in Replicas : ReplicaIngest(r)

SpecProp == Init /\ [][NextProp]_vars

(***************************************************************************)
(* SpecWrite: the primary's side of propagation alone: two clients issue   *)
(* pairwise distinct SETs while replicas join; the frames are queued and   *)
(* written to the replicas' sockets, where they stay unread                *)
(***************************************************************************)
NextWrite ==
    \/ \E r \in Replicas : AddReplica(r)
    \/ \E c \in Clients, k \in Keys :
          /\ ~InLog(applied, SetFrame(k, ClientValue(c)))
          /\ HandleSet(c, k, ClientValue(c))
    \/ \E c \in Clients : PropagateClone(c)
    \/ \E c \in Clients : PropagateWrite(c)
    \/ \E r \in Replicas : WriterRun(r)
    \/ \E c \in Clients : PropagateWritten(c)
    \/ \E c \in Clients : WriteResponse(c)

SpecWrite == Init /\ [][NextWrite]_vars

\* the client of the scenarios with a single client
WaitClient == "c1"

(***************************************************************************)
(* SpecSync: the handshake of the replicas on the primary while a client   *)
(* issues SETs: a replica sends REPLCONF listening-port (AddReplica) and   *)
(* later PSYNC; what is written to the replicas' sockets stays unread      *)
(***************************************************************************)
NextSync ==
    \/ \E r \in Replicas : AddReplica(r)
    \/ \E r \in Replicas : ServePsync(r)
    \/ \E k \in Keys :
          /\ ~InLog(applied, SetFrame(k, ClientValue(WaitClient)))
          /\ HandleSet(WaitClient, k, ClientValue(WaitClient))
    \/ PropagateClone(WaitClient)
    \/ PropagateWrite(WaitClient)
    \/ \E r \in Replicas : WriterRun(r)
    \/ PropagateWritten(WaitClient)
    \/ WriteResponse(WaitClient)

SpecSync == Init /\ [][NextSync]_vars

(***************************************************************************)
(* SpecFail: a client issues SETs while replicas join and their            *)
(* connections close; a write to a closed connection succeeds or fails     *)
(***************************************************************************)
NextFail ==
    \/ \E r \in Replicas : AddReplica(r)
    \/ \E r \in Replicas : CloseReplica(r)
    \/ \E k \in Keys :
          /\ ~InLog(applied, SetFrame(k, ClientValue(WaitClient)))
          /\ HandleSet(WaitClient, k, ClientValue(WaitClient))
    \/ PropagateClone(WaitClient)
    \/ PropagateWrite(WaitClient)
    \/ \E r \in Replicas : WriterRun(r)
    \/ \E r \in Replicas : WriterFail(r)
    \/ PropagateWritten(WaitClient)
    \/ PropagatePanics(WaitClient)
    \/ WriteResponse(WaitClient)

SpecFail == Init /\ [][NextFail]_vars

(***************************************************************************)
(* SpecOrder: two clients send SETs and invalid frames to a primary that   *)
(* has no replica; each response goes through the writer actor of the      *)
(* client's connection                                                     *)
(***************************************************************************)
NextOrder ==
    \/ \E c \in Clients, k \in Keys :
          /\ ~InLog(applied, SetFrame(k, ClientValue(c)))
          /\ HandleSet(c, k, ClientValue(c))
    \/ \E c \in Clients : HandleInvalid(c, InvalidFrame("unknown", "FOO"))
    \/ \E c \in Clients : PropagateClone(c)
    \/ \E c \in Clients : PropagateWrite(c)
    \/ \E c \in Clients : WriteResponseSend(c)
    \/ \E c \in Clients : ClientWriterRun(c)
    \/ \E c \in Clients : WriteResponseWritten(c)

SpecOrder == Init /\ [][NextOrder]_vars

(***************************************************************************)
(* SpecCmd: a client sends the primary SETs typed in upper and lower case, *)
(* other commands and frames that are no valid command, while replicas     *)
(* join                                                                    *)
(***************************************************************************)
NextCmd ==
    \/ \E r \in Replicas : AddReplica(r)
    \/ \E word \in {"SET", "set"} :
          /\ ~InLog(applied, SetFrameAs(word, StreamKey, "v1"))
          /\ HandleSetAs(WaitClient, word, StreamKey, "v1")
    \/ \E word \in OtherWords : HandleOther(WaitClient, word)
    \/ \E f \in InvalidFrames : HandleInvalid(WaitClient, f)
    \/ PropagateClone(WaitClient)
    \/ PropagateWrite(WaitClient)
    \/ \E r \in Replicas : WriterRun(r)
    \/ PropagateWritten(WaitClient)
    \/ WriteResponse(WaitClient)

SpecCmd == Init /\ [][NextCmd]_vars

(***************************************************************************)
(* FairTasks: connections register as replicas (while their handler runs)  *)
(* and their peers close them, before or after; a client sends SETs that   *)
(* are propagated. Every task is scheduled whenever it can run.            *)
(***************************************************************************)
NextTasks ==
    \/ \E r \in Replicas :
          /\ tasks[r].handler = "run"
          /\ AddReplica(r)
    \/ \E r \in Replicas : ClosePeer(r)
    \/ \E r \in Replicas : HandlerEnds(r)
    \/ \E r \in Replicas : ReaderEnds(r)
    \/ \E r \in Replicas : WriterEnds(r)
    \/ HandleSet(WaitClient, StreamKey, ClientValue(WaitClient))
    \/ PropagateClone(WaitClient)
    \/ PropagateWrite(WaitClient)
    \/ \E r \in Replicas : WriterRun(r)
    \/ PropagateWritten(WaitClient)
    \/ WriteResponse(WaitClient)

FairTasks ==
    /\ Init
    /\ [][NextTasks]_vars
    /\ \A r \in Replicas :
          /\ WF_vars(HandlerEnds(r))
          /\ WF_vars(ReaderEnds(r))
          /\ WF_vars(WriterEnds(r))
          /\ WF_vars(WriterRun(r))
    /\ WF_vars(PropagateClone(WaitClient))
    /\ WF_vars(PropagateWrite(WaitClient))
    /\ WF_vars(PropagateWritten(WaitClient))
    /\ WF_vars(WriteResponse(WaitClient))

(***************************************************************************)
(* SpecInvalid: a client sends SETs and frames that are no valid command   *)
(* to the primary while replicas join                                      *)
(***************************************************************************)
NextInvalid ==
    \/ \E r \in Replicas : AddReplica(r)
    \/ \E k \in Keys :
          /\ ~InLog(applied, SetFrame(k, ClientValue(WaitClient)))
          /\ HandleSet(WaitClient, k, ClientValue(WaitClient))
    \/ \E f \in InvalidFrames : HandleInvalid(WaitClient, f)
    \/ PropagateClone(WaitClient)
    \/ PropagateWrite(WaitClient)
    \/ \E r \in Replicas : WriterRun(r)
    \/ PropagateWritten(WaitClient)
    \/ WriteResponse(WaitClient)

SpecInvalid == Init /\ [][NextInvalid]_vars

(***************************************************************************)
(* SpecIngest: the same, with the replicas reading what the primary sends  *)
(***************************************************************************)
NextIngest ==
    \/ NextInvalid
    \/ \E r \in Replicas : ReplicaIngest(r)

SpecIngest == Init /\ [][NextIngest]_vars

(***************************************************************************)
(* SpecWait: one client issues SET and WAIT on the primary while replicas  *)
(* join, ingest what is propagated and answer GETACK; time passes          *)
(***************************************************************************)
NextWait ==
    \/ \E r \in Replicas : AddReplica(r)
    \/ HandleSet(WaitClient, StreamKey, ClientValue(WaitClient))
    \/ \E n \in WaitCounts, t \in WaitTimeouts : HandleWait(WaitClient, n, t)
    \/ PropagateClone(WaitClient)
    \/ PropagateWrite(WaitClient)
    \/ \E r \in Replicas : WriterRun(r)
    \/ PropagateWritten(WaitClient)
    \/ GetAckClone(WaitClient)
    \/ \E r \in Replicas : GetAckWrite(WaitClient, r)
    \/ GetAckJoined(WaitClient)
    \/ RecvAck(WaitClient)
    \/ RecvTimeout(WaitClient)
    \/ WriteResponse(WaitClient)
    \/ \E r \in Replicas : ReplicaIngest(r)
    \/ \E r \in Replicas : ReplConfAck(r)
    \/ WaitTick

SpecWait == Init /\ [][NextWait]_vars

(***************************************************************************)
(* SpecAck: as SpecWait, with every WAIT asking for all replicas and the   *)
(* longest timeout, so that the replicas' acknowledgements are handled     *)
(***************************************************************************)
NextAck ==
    \/ \E r \in Replicas : AddReplica(r)
    \/ HandleSet(WaitClient, StreamKey, ClientValue(WaitClient))
    \/ HandleWait(WaitClient, Cardinality(Replicas), MaxWaitTimeout)
    \/ PropagateClone(WaitClient)
    \/ PropagateWrite(WaitClient)
    \/ \E r \in Replicas : WriterRun(r)
    \/ PropagateWritten(WaitClient)
    \/ GetAckClone(WaitClient)
    \/ \E r \in Replicas : GetAckWrite(WaitClient, r)
    \/ GetAckJoined(WaitClient)
    \/ RecvAck(WaitClient)
    \/ RecvTimeout(WaitClient)
    \/ WriteResponse(WaitClient)
    \/ \E r \in Replicas : ReplicaIngest(r)
    \/ \E r \in Replicas : ReplConfAck(r)
    \/ WaitTick

SpecAck == Init /\ [][NextAck]_vars

(***************************************************************************)
(* SpecTwoWaits: two clients each issue one SET and then WAITs for one     *)
(* replica, which registers first, ingests what is propagated and answers  *)
(* GETACK; time passes                                                     *)
(***************************************************************************)
OneReplica == CHOOSE r \in Replicas : TRUE

NextTwoWaits ==
    \/ /\ \A c \in Clients : hs[c].sent = 0
       /\ AddReplica(OneReplica)
    \/ \E c \in Clients :
          /\ replicas # <<>>
          /\ hs[c].sent = 0
          /\ HandleSet(c, StreamKey, ClientValue(c))
    \/ \E c \in Clients, t \in WaitTimeouts :
          /\ hs[c].sent > 0
          /\ HandleWait(c, 1, t)
    \/ \E c \in Clients : PropagateClone(c)
    \/ \E c \in Clients : PropagateWrite(c)
    \/ WriterRun(OneReplica)
    \/ \E c \in Clients : PropagateWritten(c)
    \/ \E c \in Clients : GetAckClone(c)
    \/ \E c \in Clients : GetAckWrite(c, OneReplica)
    \/ \E c \in Clients : GetAckJoined(c)
    \/ \E c \in Clients : RecvAck(c)
    \/ \E c \in Clients : RecvTimeout(c)
    \/ \E c \in Clients : WriteResponse(c)
    \/ ReplicaIngest(OneReplica)
    \/ ReplConfAck(OneReplica)
    \/ WaitTick

SpecTwoWaits == Init /\ [][NextTwoWaits]_vars

(***************************************************************************)
(* SpecWriter: replicas register and send PSYNC while a client issues SETs *)
(* and WAITs; the writer actor of each replica's connection writes what    *)
(* the handlers queue, a Frame::Rdb in two writes with a sleep between     *)
(* them; what is written stays unread                                      *)
(***************************************************************************)
NextWriter ==
    \/ \E r \in Replicas : AddReplica(r)
    \/ \E r \in Replicas : ServePsync(r)
    \/ HandleSet(WaitClient, StreamKey, ClientValue(WaitClient))
    \/ HandleWait(WaitClient, Cardinality(Replicas), 0)
    \/ PropagateClone(WaitClient)
    \/ PropagateWrite(WaitClient)
    \/ \E r \in Replicas : WriterRunFrame(r)
    \/ \E r \in Replicas : WriterRdbLine(r)
    \/ \E r \in Replicas : WriterRdbPayload(r)
    \/ PropagateWritten(WaitClient)
    \/ GetAckClone(WaitClient)
    \/ \E r \in Replicas : GetAckWrite(WaitClient, r)
    \/ GetAckJoined(WaitClient)
    \/ RecvTimeout(WaitClient)
    \/ WriteResponse(WaitClient)

SpecWriter == Init /\ [][NextWriter]_vars

(***************************************************************************)
(* SpecClose: as SpecWait, and the connections of replicas close; a closed *)
(* replica reads and answers nothing more                                  *)
(***************************************************************************)
NextClose ==
    \/ \E r \in Replicas : AddReplica(r)
    \/ \E r \in Replicas : CloseReplica(r)
    \/ HandleSet(WaitClient, StreamKey, ClientValue(WaitClient))
    \/ \E n \in WaitCounts, t \in WaitTimeouts : HandleWait(WaitClient, n, t)
    \/ PropagateClone(WaitClient)
    \/ PropagateWrite(WaitClient)
    \/ \E r \in Replicas : WriterRun(r)
    \/ PropagateWritten(WaitClient)
    \/ GetAckClone(WaitClient)
    \/ \E r \in Replicas : GetAckWrite(WaitClient, r)
    \/ GetAckJoined(WaitClient)
    \/ RecvAck(WaitClient)
    \/ RecvTimeout(WaitClient)
    \/ WriteResponse(WaitClient)
    \/ \E r \in Replicas \ closed : ReplicaIngest(r)
    \/ \E r \in Replicas \ closed : ReplConfAck(r)
    \/ WaitTick

SpecClose == Init /\ [][NextClose]_vars

\* ---------------------------------------------------------------- C1
\* C1: in every reachable state the entries of every stream are in
\* strictly increasing id order (every successful XADD appends an id
\* greater than every id already in the stream).
StreamsStrictlyIncreasing ==
    \A k \in Keys :
        data[k].kind = "stream" =>
            \A i, j \in 1..Len(data[k].entries) :
                i < j => IdLess(data[k].entries[i], data[k].entries[j])

\* ---------------------------------------------------------------- C2
\* C2: an explicit id other than 0-0 is refused exactly when ms < last.ms,
\* or ms = last.ms and seq <= last.seq, last being the stream's last id
\* ((0,0) for an empty or new stream); every other one is accepted.
ExplicitRefusedExactlyWhenNotGreater ==
    (xres.arg.kind = "explicit" /\ xres.status \in {"ok", "refused"}) =>
        ((xres.status = "refused") <=>
            (\/ xres.arg.ms < xres.last[1]
             \/ (xres.arg.ms = xres.last[1] /\ xres.arg.seq <= xres.last[2])))

\* ---------------------------------------------------------------- C10
\* a step that writes or removes key k
WritesKey(k) ==
    \/ \E v \in Values, e \in Ttls : Set(k, v, e)
    \/ Remove(k)

\* C10: after SET k v PX m, as long as k is not written or removed again,
\* GET k returns v at every moment strictly before the deadline: no step
\* other than a write of k (the reaper's passes, writes of other keys,
\* the passing of time) that ends before the deadline of the entry at k
\* changes that entry.
LiveEntryKeptBeforeDeadline ==
    [][\A k \in Keys :
          (/\ data[k].kind = "string"
           /\ data[k].expires_at # NoDeadline
           /\ now' < data[k].expires_at
           /\ ~WritesKey(k))
          => (data'[k] = data[k] /\ Get(data', k) = data[k].value)]_vars

\* the reaper has just removed a key whose deadline passed while another
\* key holds a string whose deadline is still in the future
ReaperPassedOverLiveEntry ==
    /\ reaped # {}
    /\ \E k \in Keys :
          /\ data[k].kind = "string"
          /\ data[k].expires_at # NoDeadline
          /\ now < data[k].expires_at
          /\ Get(data, k) = data[k].value

\* ---------------------------------------------------------------- C3
\* s can be obtained from t by leaving frames out
RECURSIVE IsSubseq(_, _)
IsSubseq(s, t) ==
    IF s = <<>> THEN TRUE
    ELSE IF t = <<>> THEN FALSE
    ELSE IF Head(s) = Head(t) THEN IsSubseq(Tail(s), Tail(t))
    ELSE IsSubseq(s, Tail(t))

\* C3: with several clients issuing SETs concurrently, every replica
\* receives the propagated SET frames in the order in which the primary
\* applied them to its own keyspace.
ReplicaFollowsAppliedOrder ==
    \A r \in Replicas : IsSubseq(rlog[r], applied)

\* ---------------------------------------------------------------- C4
\* frame f comes before frame g in log
Before(log, f, g) ==
    \E i \in 1..Len(log), j \in 1..Len(log) :
        i < j /\ log[i] = f /\ log[j] = g

\* C4: with two or more replicas registered and SETs arriving from
\* concurrent clients, all replicas receive the propagated frames in the
\* same order: no two frames arrive in one order at one replica and in the
\* opposite order at another.
ReplicasAgreeOnOrder ==
    \A r1 \in Replicas, r2 \in Replicas :
        \A i \in 1..Len(applied), j \in 1..Len(applied) :
            ~(Before(rlog[r1], applied[i], applied[j])
              /\ Before(rlog[r2], applied[j], applied[i]))

\* ---------------------------------------------------------------- C5
\* handler c has served a WAIT that went past the early return
WaitCounted(c) ==
    /\ hs[c].pc = "respond"
    /\ hs[c].frame.cmd = "WAIT"
    /\ hs[c].offset > 0

\* the registered replicas whose last reported ACK offset reaches `offset`
AckedReplicas(offset) ==
    {r \in Replicas : InLog(replicas, r) /\ repl_offset[r] >= offset}

\* C5: after a propagatable command, WAIT n t returns a count between 0
\* and the number of registered replicas that never exceeds the number of
\* distinct replicas that have reported an ACK offset at or above the
\* primary's offset (no replica counted twice, no ACK left by an earlier
\* WAIT counted for another replica).
WaitCountsDistinctReplicas ==
    \A c \in Clients :
        WaitCounted(c) =>
            /\ 0 <= hs[c].resp
            /\ hs[c].resp <= Len(replicas)
            /\ hs[c].resp <= Cardinality(AckedReplicas(hs[c].offset))

\* ---------------------------------------------------------------- C6
\* C6: a WAIT n t served while the primary's offset is 0 returns the number
\* of registered replicas in that very step, for every n and t: nothing is
\* queued for any replica's writer and the ACK channel is left untouched.
WaitAtOffsetZeroReturnsAtOnce ==
    [][\A c \in Clients :
          (hs[c].pc = "read" /\ hs[c].offset = 0 /\ hs'[c].frame.cmd = "WAIT")
          => /\ hs'[c].pc = "respond"
             /\ hs'[c].resp = Len(replicas)
             /\ hs'[c].returned = now
             /\ wq' = wq
             /\ acks' = acks]_vars

\* a WAIT has been answered at offset 0 with replicas registered
WaitAnsweredAtOffsetZero ==
    \E c \in Clients :
        /\ hs[c].pc = "respond"
        /\ hs[c].frame.cmd = "WAIT"
        /\ hs[c].offset = 0
        /\ Len(replicas) > 0
        /\ hs[c].resp = Len(replicas)

\* ---------------------------------------------------------------- C7
\* C7: a WAIT n t that does not collect n satisfying ACKs returns no later
\* than t after it began to read the ACK channel, however many ACKs
\* arrive meanwhile.
WaitBoundedByTimeout ==
    \A c \in Clients :
        (WaitCounted(c) /\ hs[c].resp < hs[c].frame.n)
        => hs[c].returned <= hs[c].started + hs[c].frame.timeout

\* ---------------------------------------------------------------- C8
IdSpace == (0..MaxMs) \X (0..MaxSeq)

\* the XREAD in progress blocks, and entry `id`, above the floor of its
\* stream, was appended to a requested stream after the XREAD was issued
\* (and before its timeout, when it has one)
FreshEntryAbove(id) ==
    /\ xr.pc \in {"xread", "subscribe", "join"}
    /\ xr.block # NoBlock
    /\ xr.sleep = "armed" => now < xr.until
    /\ \E idx \in 1..Len(xr.keys) :
          /\ data[xr.keys[idx]].kind = "stream"
          /\ IdLess(FloorAt(xr.ids, idx), id)
          /\ \E j \in (xr.seen[idx] + 1)..Len(data[xr.keys[idx]].entries) :
                data[xr.keys[idx]].entries[j] = id

\* the XREAD has returned and its result holds entry `id`
ReturnedWith(id) ==
    /\ xr.pc = "idle"
    /\ \E r \in 1..Len(xr.result) :
          \E j \in 1..Len(xr.result[r].entries) : xr.result[r].entries[j] = id

\* entry `id` is no longer in any requested stream (a SET replaced it)
EntryGone(id) ==
    \A idx \in 1..Len(xr.keys) :
        \/ data[xr.keys[idx]].kind # "stream"
        \/ \A j \in 1..Len(data[xr.keys[idx]].entries) :
              data[xr.keys[idx]].entries[j] # id

\* C8: if, after a blocking XREAD was issued, a concurrent XADD appends an
\* entry above the floor of a requested stream before the timeout, the
\* XREAD eventually returns with that entry (unless the entry was
\* overwritten meanwhile or the store's mutex got poisoned).
BlockedXReadReturnsFreshEntry ==
    \A id \in IdSpace :
        FreshEntryAbove(id) ~>
            (ReturnedWith(id) \/ EntryGone(id) \/ poisoned \/ xr.pc = "panicked")

\* ---------------------------------------------------------------- C9
\* every requested key holds a stream whose entries are all at or below
\* the floor of that key: no XADD has appended an entry above it
NothingAboveFloor ==
    \A idx \in 1..Len(xr.keys) :
        /\ data[xr.keys[idx]].kind = "stream"
        /\ \A j \in 1..Len(data[xr.keys[idx]].entries) :
              IdLeq(data[xr.keys[idx]].entries[j], FloorAt(xr.ids, idx))

ResultHasNoEntry ==
    \A r \in 1..Len(xr.result) : xr.result[r].entries = <<>>

\* C9: an XREAD with block > 0 during which no XADD appended an entry
\* above the floor of a requested stream returns no entry, and returns
\* only once the block timeout has elapsed.
XReadEmptyOnlyAfterTimeout ==
    (/\ xr.pc = "idle"
     /\ xr.block > 0
     /\ Len(xr.keys) > 0
     /\ NothingAboveFloor)
    => (ResultHasNoEntry /\ xr.returned >= xr.issued + xr.block)

\* ---------------------------------------------------------------- C11
\* key k holds a string whose deadline has passed
Overdue(k) ==
    /\ data[k].kind = "string"
    /\ data[k].expires_at # NoDeadline
    /\ data[k].expires_at <= now

\* C11: after SET k v PX m, once the deadline has passed the entry at k is
\* eventually gone (removed by the reaper, or written again), under fair
\* scheduling of the reaper: the reaper is never left sleeping past the
\* earliest deadline of the index.
OverdueEntryEventuallyRemoved ==
    \A k \in Keys : Overdue(k) ~> ~Overdue(k)

\* a SET has installed a deadline earlier than the one the reaper sleeps
\* until, and has left it a permit
EarlierDeadlineWakesReaper ==
    /\ reaper.pc = "sleep"
    /\ permit
    /\ HasNextExpiry(expires)
    /\ NextExpiry(expires) < reaper.until


\* ---------------------------------------------------------------- C12
\* C12: after a SET has overwritten a string entry that had the deadline
\* d, as long as the key is not removed by a client, the old deadline is
\* not honored: the row of the old entry is no longer in the index, and at
\* every moment (before and after d passes) the key holds the entry that
\* SET put there, unless that entry had a deadline of its own which has
\* passed.
OldDeadlineNotHonored ==
    \A k \in Keys :
        replaced[k] # NoReplaced =>
            /\ \A r \in expires :
                  r.key = k => (data[k].kind = "string" /\ r.id = data[k].id)
            /\ \/ /\ data[k].kind = "string"
                  /\ data[k].expires_at = replaced[k].own
               \/ /\ data[k] = NoEntry
                  /\ replaced[k].own # NoDeadline
                  /\ replaced[k].own <= now

\* the deadline of an overwritten entry has passed, the reaper has made
\* its pass and waits with an empty index, and the key still holds the
\* never expiring entry that replaced it
OverwrittenEntryOutlivesOldDeadline ==
    \E k \in Keys :
        /\ replaced[k] # NoReplaced
        /\ replaced[k].at <= now
        /\ replaced[k].own = NoDeadline
        /\ data[k].kind = "string"
        /\ reaper.pc = "wait"
        /\ ~permit
        /\ expires = {}

\* ---------------------------------------------------------------- C13
\* the row is the row of the string entry at its key
RowIsLive(r) ==
    /\ data[r.key].kind = "string"
    /\ data[r.key].id = r.id
    /\ data[r.key].expires_at = r.at

\* the row is stale, and remove_expired run on it at its deadline drops
\* the row and leaves the key map as it is
RowIsStaleAndHarmless(r) ==
    /\ ~RowIsLive(r)
    /\ RemoveExpiredLoop(data, {r}, r.at, {}).data = data
    /\ RemoveExpiredLoop(data, {r}, r.at, {}).expires = {}

\* C13: in every reachable state, after any interleaving of set, remove,
\* xadd, xread and reaper steps, each string entry with deadline d and id
\* i at key k has exactly one index row (d, i), which maps to k, and each
\* index row (d, i) -> k is the row of the string entry at k with id i and
\* deadline d, or is a stale row that the reaper discards without removing
\* the entry at k.
IndexAgreesWithKeyMap ==
    /\ \A k \in Keys :
          (data[k].kind = "string" /\ data[k].expires_at # NoDeadline)
          => {r \in expires : r.at = data[k].expires_at /\ r.id = data[k].id}
                = {Row(data[k].expires_at, data[k].id, k)}
    /\ \A r \in expires : RowIsLive(r) \/ RowIsStaleAndHarmless(r)

\* the reaper has removed a key in its last pass, XADD has appended to the
\* stream, an XREAD has returned it, and a string entry with a deadline
\* is in the key map with its row
IndexedAfterEveryOperation ==
    /\ reaped # {}
    /\ xres.status = "ok"
    /\ xr.pc = "idle" /\ xr.result # <<>>
    /\ \E r \in expires : RowIsLive(r)


\* ---------------------------------------------------------------- C14
\* the frame has been written to the socket of replica r's connection
\* (it is on the wire or the replica has already executed it)
WrittenTo(r, frame) == InLog(wire[r], frame) \/ InLog(rlog[r], frame)

IsPrefix(s, t) == Len(s) <= Len(t) /\ \A i \in 1..Len(s) : s[i] = t[i]

\* C14: for every SET a client issues on the primary, +OK is written only
\* after the SET frame has been written to every replica registered at
\* that time: the list of replicas only grows, the replicas a handler
\* clones after executing the SET are all the replicas in the list at
\* that moment, and the step that writes the response of a SET is taken
\* only when the frame has been written to each of them.
OkOnlyAfterWrittenToReplicas ==
    [][/\ IsPrefix(replicas, replicas')
       /\ \A c \in Clients :
            /\ (hs[c].pc = "executed" /\ hs'[c].pc = "propagate")
               => hs'[c].snap = replicas
            /\ (/\ hs[c].pc = "respond"
                /\ hs[c].frame.cmd = "SET"
                /\ hs'[c].pc = "read")
               => \A i \in 1..Len(hs[c].snap) :
                     WrittenTo(hs[c].snap[i], hs[c].frame)]_vars

\* a handler is about to write +OK for a SET that it has propagated to
\* two replicas: the frame is on the socket of both
OkAfterTwoReplicasWritten ==
    \E c \in Clients :
        /\ hs[c].pc = "respond"
        /\ hs[c].frame.cmd = "SET"
        /\ Len(hs[c].snap) = 2
        /\ \A i \in 1..2 : InLog(wire[hs[c].snap[i]], hs[c].frame)


\* ---------------------------------------------------------------- C15
\* C15: a connection becomes a propagation target only when it completes
\* PSYNC: on the socket of every replica connection, each propagated SET
\* frame comes after the +FULLRESYNC and RDB blob of that connection.
NoPropagationBeforeFullResync ==
    \A r \in Replicas :
        \A i \in 1..Len(wire[r]) :
            wire[r][i].cmd = "SET" =>
                \E j \in 1..(i - 1) : wire[r][j] = FullResyncFrame

\* ---------------------------------------------------------------- C16
\* the replicas in the primary's list whose connection is open
OpenReplicas == {replicas[i] : i \in 1..Len(replicas)} \ closed

\* C16: a replica is in the primary's list only until its connection
\* closes: a WAIT that returns the replica total counts no replica whose
\* connection has closed, and neither the replicas cloned for the
\* propagation of a SET nor those cloned for REPLCONF GETACK include one.
ClosedReplicaLeavesList ==
    [][\A c \in Clients :
          /\ (/\ hs[c].pc = "read"
              /\ hs'[c].pc = "respond"
              /\ hs'[c].frame.cmd = "WAIT")
             => hs'[c].resp <= Cardinality(OpenReplicas)
          /\ (hs[c].pc = "executed" /\ hs'[c].pc = "propagate")
             => \A i \in 1..Len(hs'[c].snap) : hs'[c].snap[i] \notin closed
          /\ (hs[c].pc = "counting" /\ hs'[c].pc = "getack")
             => hs'[c].tosend \cap closed = {}]_vars

\* ---------------------------------------------------------------- C17
\* C17: a failed write to one replica during the propagation of a SET
\* does not end the handler: its next step is the next turn of the loop
\* over the replicas (after which the remaining replicas receive the
\* frame, +OK is written and the connection is read again).
FailedWriteLeavesHandlerRunning ==
    [][\A c \in Clients :
          hs[c].pc = "failed" => hs'[c].pc \in {"failed", "propagate"}]_vars

\* ---------------------------------------------------------------- C18
\* C18: on a primary, for every client frame that is not a valid command
\* the handler writes an error frame and goes on to read the next frame:
\* no handler ends while it serves such a frame.
InvalidFrameLeavesHandlerRunning ==
    \A c \in Clients :
        hs[c].frame.cmd = "INVALID" => hs[c].pc # "panicked"

\* ---------------------------------------------------------------- C19
\* C19: on a replica the ingestion offset always equals the sum of the
\* encoded lengths of all frames received from the primary, the frames
\* that the write-only dispatch rejects or that fail to parse included.
OffsetCountsEveryReceivedFrame ==
    \A r \in Replicas : roffset[r] = rbytes[r]

\* ---------------------------------------------------------------- C20
\* C20: on the replica's connection to the primary no response is written
\* for any received frame, except REPLCONF ACK n in reply to GETACK.
OnlyAckWrittenToPrimary ==
    \A r \in Replicas : rsent[r] = <<>>

\* ---------------------------------------------------------------- C21
\* the cumulative encoded length of the write commands in the log
PropagatedLen(log) == Len(log) * SetLen

\* C21: on a primary, in every reachable state the replication offset
\* that the handler of any client connection uses (for WAIT and INFO)
\* equals the cumulative encoded length of all write commands executed for
\* propagation so far, whichever client connection issued them.
OffsetSharedByAllHandlers ==
    \A c \in Clients : hs[c].offset = PropagatedLen(applied)

\* ---------------------------------------------------------------- C23
\* C23: a GET changes neither the key map, the deadline index nor the id
\* counter; it answers the value of the string entry at the key also when
\* the deadline of the entry has passed (no lazy deletion); and a GET of
\* the key of the previous GET, with the entry at the key the one that
\* GET found, returns what that GET returned.
GetIsSideEffectFree ==
    [][got'.turn # got.turn =>
          /\ data' = data
          /\ expires' = expires
          /\ next_id' = next_id
          /\ data[got'.key].kind = "string"
                => got'.value = data[got'.key].value
          /\ (got'.key = got.key /\ data[got.key] = got.entry)
                => got'.value = got.value]_vars

\* a second GET in a row has answered the value of an entry whose
\* deadline has passed, and the entry and its row are still there
GetReturnsOverdueEntryTwice ==
    \E k \in Keys :
        /\ got.key = k /\ got.turn = 0
        /\ got.entry = data[k]
        /\ data[k].kind = "string"
        /\ data[k].expires_at # NoDeadline /\ data[k].expires_at <= now
        /\ got.value = data[k].value
        /\ Row(data[k].expires_at, data[k].id, k) \in expires

\* ---------------------------------------------------------------- C22
\* the responses to the commands 1..n of a connection, in that order
InOrder(out) == \A i \in 1..Len(out) : out[i].n = i

\* C22: within one client connection the responses are written in the
\* order in which the commands were received: the socket holds the
\* responses to the first commands in order, all of them when the handler
\* is about to read the next command and all but the last while it serves
\* one; and the writer actor takes the frames in the order they were queued.
ResponsesInCommandOrder ==
    /\ \A c \in Clients :
          /\ InOrder(cout[c])
          /\ hs[c].pc = "read" => Len(cout[c]) = hs[c].sent /\ cq[c] = <<>>
          /\ hs[c].pc \notin {"read", "responding"}
                => Len(cout[c]) = hs[c].sent - 1 /\ cq[c] = <<>>
          /\ hs[c].pc = "responding"
                => Len(cout[c]) + Len(cq[c]) = hs[c].sent /\ Len(cq[c]) <= 1

\* a client has got the error of its first command and +OK of its second
\* and third, and its handler reads on
ThreeResponsesInOrder ==
    \E c \in Clients :
        /\ hs[c].pc = "read"
        /\ Len(cout[c]) = 3
        /\ cout[c][1].resp = "ERR"
        /\ cout[c][2].resp = "OK"
        /\ cout[c][3].resp = "OK"

\* ---------------------------------------------------------------- C24
\* C24: for every frame f among Simple, Error, Integer, Bulk, null bulk
\* and nested Array, Frame::parse on the bytes the codec emits for f, be
\* it Frame::encode or the writer actor, yields f and consumes the bytes.
DecodeOfEncodeIsIdentity ==
    call.fn \in {"encode", "write"} =>
        /\ call.out.ok
        /\ call.out.frame = call.in
        /\ call.out.rest = <<>>

\* ---------------------------------------------------------------- C25
\* the command name of the frame is SET, in whatever case it was typed
NamedSet(frame) == FirstWord(frame) \in {"SET", "set", "Set", "sET"}

IdsAt(d, key) == IF d[key].kind = "stream" THEN d[key].entries ELSE <<>>

\* how many of the ids have the millisecond part ms
RECURSIVE EntriesWithMs(_, _)
EntriesWithMs(ids, ms) ==
    IF ids = <<>> THEN 0
    ELSE (IF Head(ids)[1] = ms THEN 1 ELSE 0) + EntriesWithMs(Tail(ids), ms)

\* C26: an XADD with <ms>-* that appends an entry gives it the sequence
\* number "entries already in the stream with that ms", plus 1 when ms is
\* 0, and so never the id 0-0; an XADD with * gives it the current
\* millisecond and the number of entries already there with that
\* millisecond.
AutoSeqCountsEntriesOfMs ==
    [][\A key \in Keys :
          (/\ data'[key].kind = "stream"
           /\ Len(data'[key].entries) = Len(IdsAt(data, key)) + 1)
          => LET before == IdsAt(data, key)
                 id == data'[key].entries[Len(data'[key].entries)]
             IN  /\ xres'.arg.kind = "autoseq"
                     => /\ id[1] = xres'.arg.ms
                        /\ id[2] = EntriesWithMs(before, id[1])
                                    + (IF id[1] = 0 THEN 1 ELSE 0)
                        /\ id # Id(0, 0)
                 /\ xres'.arg.kind = "auto"
                     => /\ id[1] = wall
                        /\ id[2] = EntriesWithMs(before, wall)]_vars

\* the first XADD 0-* on a key that held nothing was answered 0-1
FirstAutoSeqAtZeroIsOne ==
    /\ xres.status = "ok"
    /\ xres.arg = [kind |-> "autoseq", ms |-> 0]
    /\ xres.last = Id(0, 0)
    /\ xres.id = Id(0, 1)
    /\ IdsAt(data, xres.key) = <<Id(0, 1)>>

\* ---------------------------------------------------------------- C27
\* C27: when a peer closes its socket, the reader actor, the writer actor
\* and the handler of that connection all eventually end, also when the
\* connection was registered as a replica.
TasksEndAfterClose ==
    \A r \in Replicas : (r \in closed) ~> (tasks[r] = AllEnded)

\* ---------------------------------------------------------------- C28
\* C28: the byte length returned by Command::execute and by
\* Command::execute_replica is the encoded size of the request frame as it
\* was received.
ReturnedLenIsReceivedSize ==
    call.fn \in {"execute", "execute_replica"} => call.len = call.received

\* ---------------------------------------------------------------- C29
\* the XREAD is blocked in join_next: no waiter has ended and the sleep,
\* if one was spawned, has not completed
XReadWaiting ==
    /\ xr.pc = "join"
    /\ xr.sleep # "fired"
    /\ \A i \in WaiterIds : rcv[i].state # "done"

\* a requested stream, unchanged since the XREAD was issued, holds an
\* entry above the floor of its key
QualifiedAtIssue ==
    \E i \in 1..Len(xr.keys) :
        /\ data[xr.keys[i]].kind = "stream"
        /\ Len(data[xr.keys[i]].entries) = xr.seen[i]
        /\ EntriesAbove(data[xr.keys[i]].entries, FloorAt(xr.ids, i)) # <<>>

\* C29: an XREAD with block set, issued when a requested stream already
\* holds an entry above its floor, does not wait for a further XADD or for
\* the timeout: it waits only if no entry qualifies.
BlockedXReadWaitsOnlyIfNoneQualifies ==
    XReadWaiting => ~QualifiedAtIssue

\* ---------------------------------------------------------------- C30
\* C30: get_streams_last_ids(keys) returns exactly one id per named key,
\* in key order: the last id of the stream at that key, and 0-0 for a key
\* that does not exist or does not hold a stream.
LastIdsOnePerKey ==
    [][call' # call =>
          call'.out = [i \in 1..Len(call'.in) |-> LastIdAt(data, call'.in[i])]]_vars

\* ---------------------------------------------------------------- C31
\* the primary handles the REPLCONF ACK of replica r in this step
AckHandled(r) == Len(up'[r]) < Len(up[r])

\* C31: handling REPLCONF ACK n from a registered replica connection sets
\* that replica's last-acked offset to n, puts exactly one pair (addr, n)
\* on the WAIT channel and writes nothing to the replica; the last-acked
\* offset of every other replica is unchanged.
AckUpdatesOneReplicaAndAnswersNothing ==
    [][\A r \in Replicas :
          (AckHandled(r) /\ \E i \in 1..Len(replicas) : replicas[i] = r) =>
              /\ repl_offset'[r] = Head(up[r])
              /\ acks' = Append(acks, [addr |-> r, offset |-> Head(up[r])])
              /\ wire' = wire
              /\ wq' = wq
              /\ \A o \in Replicas \ {r} : repl_offset'[o] = repl_offset[o]]_vars

\* two replicas are registered, one has acknowledged a positive offset and
\* the other has acknowledged nothing
OneReplicaAcked ==
    /\ Len(replicas) = 2
    /\ \E r \in Replicas :
          /\ repl_offset[r] > 0
          /\ \E i \in 1..Len(acks) : acks[i] = [addr |-> r, offset |-> repl_offset[r]]
          /\ \A o \in Replicas \ {r} : repl_offset[o] = 0 /\ up[o] # <<>>

\* ---------------------------------------------------------------- C32
\* C32: when the last Db handle is dropped the store is flagged as shutting
\* down, for every interleaving of the drops.
LastDropFlagsStore ==
    (\A h \in Handles : handles[h] = "dropped") => is_dropped

\* ---------------------------------------------------------------- C33
\* Db::get_type of every key, and Db::keys
TypeOf(d) == [k \in Keys |-> d[k].kind]
KeysOf(d) == {k \in Keys : d[k].kind # "none"}

\* this step serves an XADD that Db::xadd rejects
XAddRejected ==
    /\ xres' # xres
    /\ xres'.status \in {"refused", "wrongtype"}

\* C33: an XADD that is rejected (explicit id not greater than the top
\* item, or key holding a string) leaves the keyspace unchanged: no entry
\* is appended and no key created, so TYPE and KEYS answer as before.
RejectedXAddLeavesKeyspace ==
    [][XAddRejected =>
          /\ TypeOf(data') = TypeOf(data)
          /\ KeysOf(data') = KeysOf(data)
          /\ data' = data]_vars

\* ---------------------------------------------------------------- C34
\* this step is one of the XREAD in progress
XReadStepTaken == xr' # xr

\* C34: XREAD, blocking or not, does not modify the key map: it creates no
\* key and appends no entry, so TYPE and KEYS answer the same before and
\* after an XREAD on a key that does not exist.
XReadLeavesKeyMap ==
    [][XReadStepTaken =>
          /\ TypeOf(data') = TypeOf(data)
          /\ KeysOf(data') = KeysOf(data)]_vars

\* ---------------------------------------------------------------- C35
\* this step serves an XADD with an id Db::xadd accepts, while the lock is
\* sound and no reader is blocked: every XREAD has returned and its
\* receivers are gone
ValidXAddWithoutReaders ==
    /\ xres' # xres
    /\ xres'.status \notin {"parse_error", "refused", "wrongtype"}
    /\ ~poisoned
    /\ xr.pc = "idle"
    /\ \A i \in WaiterIds : rcv[i].state = "none"

\* C35: an XADD with a valid id on a stream whose blocked readers have all
\* returned succeeds: the entry is appended and its id returned, and the
\* store's mutex is not poisoned.
XAddAfterReadersSucceeds ==
    [][ValidXAddWithoutReaders =>
          /\ xres'.status = "ok"
          /\ ~poisoned'
          /\ GetLastId(data'[xres'.key]) = xres'.id]_vars

\* ---------------------------------------------------------------- C36
\* an XREAD with block = 0 has returned
BlockZeroReturned == xr.pc = "idle" /\ xr.block = 0

\* C36: a blocking XREAD with block = 0 returns only when some requested
\* stream holds an entry above the floor of its key: XADDs at or below the
\* floor, XADDs that outrun the waiter's channel and a SET over the stream
\* key do not end the wait.
BlockZeroReturnsOnlyWithEntry ==
    BlockZeroReturned =>
        \E i \in 1..Len(xr.result) : xr.result[i].entries # <<>>

\* ---------------------------------------------------------------- C37
\* in this step the WAIT of client c takes an ack off the channel and
\* finds its offset at or above the offset it compares with
AckFoundCaughtUp(c) ==
    /\ hs[c].pc = "recv"
    /\ hs'[c] # hs[c]
    /\ acks # <<>>
    /\ acks' # acks
    /\ Head(acks).offset >= hs[c].offset

\* no SET that was written to the socket of replica r is still unread
NothingUnapplied(r) ==
    \A i \in 1..Len(wire[r]) : wire[r][i].cmd # "SET"

\* C37: whenever a replica's REPLCONF ACK offset is at or above the
\* primary's offset, that replica has applied every write the primary had
\* propagated when the offset was compared.
CaughtUpAckMeansApplied ==
    [][\A c \in Clients :
          AckFoundCaughtUp(c) => NothingUnapplied(Head(acks).addr)]_vars

\* ---------------------------------------------------------------- C38
\* a frame named SET that Command::from_frame rejects
RejectedSet(frame) ==
    /\ frame.cmd = "INVALID"
    /\ frame.shape \in {"arity", "badarg"}
    /\ frame.word = "SET"

\* C38: a SET frame that the primary rejects with an error is not
\* forwarded to the replicas and does not advance the replication offset.
RejectedSetStaysOnPrimary ==
    [][/\ \A c \in Clients :
            (hs[c].pc = "read" /\ RejectedSet(hs'[c].frame))
                => hs'[c].offset = hs[c].offset
       /\ \A r \in Replicas :
            Len(wq'[r]) > Len(wq[r])
                => ~RejectedSet(wq'[r][Len(wq'[r])].frame)]_vars

\* ---------------------------------------------------------------- C39
\* the frames of which the writes in `written` are the parts: a
\* +FULLRESYNC line, with the payload that follows it, is one Frame::Rdb
RECURSIVE FramesOf(_)
FramesOf(written) ==
    IF written = <<>> THEN <<>>
    ELSE IF Head(written) = FullResyncLine
    THEN <<FullResyncFrame>>
           \o FramesOf(IF Len(written) > 1 /\ written[2] = RdbPayload
                       THEN Tail(Tail(written)) ELSE Tail(written))
    ELSE <<Head(written)>> \o FramesOf(Tail(written))

\* the frames submitted to the writer of r's connection, written or not
Submitted(r) ==
    FramesOf(wire[r]) \o [i \in 1..Len(wq[r]) |-> wq[r][i].frame]

\* on the socket every +FULLRESYNC line is followed at once by its payload,
\* or is the last write so far; a payload follows a line
RdbWritesAdjacent(written) ==
    \A i \in 1..Len(written) :
        /\ written[i] = FullResyncLine
              => (i = Len(written) \/ written[i + 1] = RdbPayload)
        /\ written[i] = RdbPayload
              => (i > 1 /\ written[i - 1] = FullResyncLine)

\* C39: frames submitted to one connection's writer actor by different
\* tasks are written one whole frame at a time in queue order: a step
\* leaves the sequence of submitted frames as it is or adds one frame at
\* its end, and nothing is written between the +FULLRESYNC line and the
\* RDB payload of a PSYNC reply.
FramesWrittenWholeInQueueOrder ==
    [][\A r \in Replicas :
          /\ \/ Submitted(r)' = Submitted(r)
             \/ \E f \in {FullResyncFrame, GetAckFrame,
                           SetFrame(StreamKey, ClientValue(WaitClient))} :
                   Submitted(r)' = Append(Submitted(r), f)
          /\ RdbWritesAdjacent(wire'[r])]_vars

\* the writer of a replica's connection sleeps between the line and the
\* payload while a propagated SET waits in its queue, behind a GETACK that
\* the same writer has written before the PSYNC reply
SetQueuedBehindRdb ==
    \E r \in Replicas :
        /\ WriterInRdb(r)
        /\ wq[r] # <<>>
        /\ Head(wq[r]).frame.cmd = "SET"
        /\ InLog(wire[r], GetAckFrame)

\* ---------------------------------------------------------------- C40
\* in this step count_sync_repl of client c returns a count below its
\* target
WaitReturnsFewer(c) ==
    /\ hs[c].pc = "recv"
    /\ hs'[c].pc = "respond"
    /\ hs'[c].resp < hs[c].target

\* c's WAIT has a timeout above 0 and the clock reads no more than it:
\* whatever has happened so far happened within that timeout, from wherever
\* it is counted
WithinTimeout(c) ==
    /\ hs[c].frame.timeout > 0
    /\ now <= hs[c].frame.timeout

\* replica r has read every frame sent to it, the GETACK of each WAIT
\* included, and the primary has put each of its ACKs on the channel
AllAcksReceived(r) ==
    /\ wq[r] = <<>>
    /\ wire[r] = <<>>
    /\ up[r] = <<>>

\* every ACK reports an offset that covers the SET the client of the
\* GETACK it answers had issued
AcksCoverTheSet ==
    /\ \A i \in 1..Len(acks) : acks[i].offset >= SetLen
    /\ \A r \in Replicas : \A i \in 1..Len(up[r]) : up[r][i] >= SetLen
    /\ \A c \in Clients : hs[c].offset <= SetLen

\* C40: when two clients run WAIT concurrently, no WAIT returns fewer than
\* n although n replicas acknowledged the current offset within its
\* timeout: a WAIT that returns below its target within its timeout has a
\* replica whose ACK has not yet reached the primary.
ConcurrentWaitsCountOwnAcks ==
    [][\A c \in Clients :
          (WaitReturnsFewer(c) /\ WithinTimeout(c))
              => \E i \in 1..Len(replicas) : ~AllAcksReceived(replicas[i])]_vars

====
